---- MODULE Spec2Model ----
(***************************************************************************)
(* Multi-mailbox email management of n8n-mcp: the account registry         *)
(* (EmailAccountService), the search orchestrator and classifier           *)
(* (EmailSearchService), the result cache (email_search_results) and the   *)
(* tool handlers in front of them.                                         *)
(*                                                                         *)
(* Conventions.  A missing (undefined) string parameter is "", a missing   *)
(* number is 0: the handlers test them with !x, which is true of exactly   *)
(* these.  An optional value the code distinguishes from an empty one is   *)
(* <<>> (undefined) or <<v>>.  Scores are in hundredths (0.15 is 15).      *)
(* Time is in hours.  Column updated_at, which every UPDATE sets to the     *)
(* current time and no operation reads, is left out of the rows.           *)
(***************************************************************************)
EXTENDS Integers, Sequences, FiniteSets, Bags, TLC

VARIABLES
    accounts,   \* table email_accounts: a set of rows
    nextId,     \* AUTOINCREMENT counter of email_accounts
    cache,      \* table email_search_results: a bag of rows (row ids left out)
    now,        \* the clock read by Date.now() and CURRENT_TIMESTAMP
    calls,      \* the search_emails tool calls, by caller
    last,       \* the request and the response of the last account tool call
    probe       \* a message, an account and what classifyEmail returned for them

vars == <<accounts, nextId, cache, now, calls, last, probe>>

(***************************************************************************)
(* Bounds of the model                                                     *)
(***************************************************************************)
MaxAccounts == 2        \* accounts ever created
MaxHours == 12          \* the clock stops here
TickHours == 12         \* one step of the clock

None == <<>>
Some(v) == <<v>>

Names == {"work", "home"}
Providers == {"gmail", "imap"}

(***************************************************************************)
(* email-account-service.ts                                                *)
(***************************************************************************)

\* JSON.stringify and JSON.parse: a value and the text that stands for it.
JSONstringify(value) == [json |-> value]
JSONparse(text) == text.json

\* encryptProviderConfig: base64 of the JSON text of the configuration.
encryptProviderConfig(config) == [base64 |-> JSONstringify(config)]

\* decryptProviderConfig: the configuration back from the stored text.
decryptProviderConfig(encrypted) == JSONparse(encrypted.base64)

\* rowToAccount: the EmailAccount object of a table row.
rowToAccount(row) ==
    [id |-> row.id,
     accountName |-> row.account_name,
     email |-> row.email,
     provider |-> row.provider,
     providerConfig |-> decryptProviderConfig(row.provider_config),
     isActive |-> (row.is_active = 1),
     lastSyncAt |-> row.last_sync_at,
     syncError |-> row.sync_error,
     defaultMailbox |-> row.default_mailbox,
     includeSent |-> (row.include_sent = 1),
     includeArchived |-> (row.include_archived = 1),
     autoDetectPriority |-> (row.auto_detect_priority = 1),
     customUrgentKeywords |-> JSONparse(row.custom_urgent_keywords),
     customImportantKeywords |-> JSONparse(row.custom_important_keywords),
     createdAt |-> row.created_at]

\* A SELECT * FROM email_accounts without its WHERE id = ?.
getFirstAccount(tbl, id) ==
    IF tbl = {} THEN None ELSE Some(rowToAccount(CHOOSE r \in tbl : TRUE))

\* getAccountById: <<>> (null) or <<account>>.
getAccountById(tbl, id) ==
    IF \E r \in tbl : r.id = id
    THEN Some(rowToAccount(CHOOSE r \in tbl : r.id = id))
    ELSE None

\* getAccountByName: <<>> (null) or <<account>>; account_name is UNIQUE.
getAccountByName(tbl, accountName) ==
    IF \E r \in tbl : r.account_name = accountName
    THEN Some(rowToAccount(CHOOSE r \in tbl : r.account_name = accountName))
    ELSE None

\* getAccountByEmail: the active account with the address, any of them when
\* there are several (the query has no ORDER BY), or <<>> (null).
getAccountByEmail(tbl, email) ==
    LET rows == {r \in tbl : r.email = email /\ r.is_active = 1}
    IN  IF rows = {} THEN {None} ELSE {Some(rowToAccount(r)) : r \in rows}

\* A column account_name without its UNIQUE constraint.
UniqueNameUnenforced(tbl, name, self) == TRUE

\* The UNIQUE constraint of column account_name (schema.sql), for a row that
\* is about to be written with that name; `self` is the id of the row itself.
UniqueName(tbl, name, self) ==
    ~ \E r \in tbl : r.account_name = name /\ r.id # self

\* The CHECK constraint of column provider (schema.sql).
ProviderCheck(provider) == provider \in {"gmail", "imap"}

\* An id column declared INTEGER PRIMARY KEY only: the engine gives a new row
\* one more than the largest id in the table.
largestRowidPlusOne(tbl, seq) ==
    IF tbl = {} THEN 1
    ELSE (CHOOSE m \in {r.id : r \in tbl} : \A r \in tbl : r.id <= m) + 1

\* id INTEGER PRIMARY KEY AUTOINCREMENT (schema.sql): the id of the row an
\* INSERT creates is the next value of the sequence of the table, which goes
\* past every id the table has ever held.
lastInsertRowid(tbl, seq) == seq

\* addAccount: INSERT INTO email_accounts.  The result is
\* [err, tbl, id]: err "" and the new table and row id, or the error thrown
\* (the engine tests the CHECK constraints of a row before its UNIQUE ones).
addAccount(tbl, id, config, t) ==
    LET row == [id |-> id,
                account_name |-> config.accountName,
                email |-> config.email,
                provider |-> config.provider,
                provider_config |-> encryptProviderConfig(config.providerConfig),
                is_active |-> 1,
                last_sync_at |-> None,
                sync_error |-> "",
                default_mailbox |-> (IF config.defaultMailbox # ""
                                     THEN config.defaultMailbox ELSE "INBOX"),
                include_sent |-> (IF config.includeSent = Some(TRUE) THEN 1 ELSE 0),
                include_archived |->
                    (IF config.includeArchived = Some(TRUE) THEN 1 ELSE 0),
                auto_detect_priority |->
                    (IF config.autoDetectPriority # Some(FALSE) THEN 1 ELSE 0),
                custom_urgent_keywords |->
                    JSONstringify(IF config.customUrgentKeywords # None
                                  THEN config.customUrgentKeywords[1] ELSE <<>>),
                custom_important_keywords |->
                    JSONstringify(IF config.customImportantKeywords # None
                                  THEN config.customImportantKeywords[1] ELSE <<>>),
                created_at |-> t]
    IN  IF ~ ProviderCheck(config.provider)
        THEN [err |-> "constraint", tbl |-> tbl, id |-> 0]
        ELSE IF ~ UniqueName(tbl, config.accountName, id)
        THEN [err |-> "conflict", tbl |-> tbl, id |-> 0]
        ELSE [err |-> "", tbl |-> tbl \cup {row}, id |-> id]

\* The UPDATE statement of updateAccount, built from `account`, the account
\* its SELECT returned, and run on the table as it is now: it sets the fields
\* updateAccount looks at in `updates`, a partial EmailAccountConfig (a string
\* not provided is "", any other field not provided is <<>>; email and
\* provider are not looked at).  With no row of that id it changes nothing.
updateRow(tbl, id, account, updates) ==
    IF ~ \E r \in tbl : r.id = id
    THEN [err |-> "", tbl |-> tbl]
    ELSE
    LET old == CHOOSE r \in tbl : r.id = id
        rename == updates.accountName # "" /\ updates.accountName # account.accountName
        new == [old EXCEPT
                  !.account_name = IF rename THEN updates.accountName ELSE @,
                  !.provider_config =
                      IF updates.providerConfig # None
                      THEN encryptProviderConfig(updates.providerConfig[1]) ELSE @,
                  !.default_mailbox = IF updates.defaultMailbox # ""
                                      THEN updates.defaultMailbox ELSE @,
                  !.include_sent =
                      IF updates.includeSent # None
                      THEN (IF updates.includeSent[1] THEN 1 ELSE 0) ELSE @,
                  !.include_archived =
                      IF updates.includeArchived # None
                      THEN (IF updates.includeArchived[1] THEN 1 ELSE 0) ELSE @,
                  !.auto_detect_priority =
                      IF updates.autoDetectPriority # None
                      THEN (IF updates.autoDetectPriority[1] THEN 1 ELSE 0) ELSE @,
                  !.custom_urgent_keywords =
                      IF updates.customUrgentKeywords # None
                      THEN JSONstringify(updates.customUrgentKeywords[1]) ELSE @,
                  !.custom_important_keywords =
                      IF updates.customImportantKeywords # None
                      THEN JSONstringify(updates.customImportantKeywords[1]) ELSE @]
    IN  IF ~ UniqueName(tbl, new.account_name, id)
        THEN [err |-> "constraint", tbl |-> tbl]
        ELSE [err |-> "", tbl |-> (tbl \ {old}) \cup {new}]

\* updateAccount: SELECT the account, then UPDATE email_accounts.
updateAccount(tbl, id, updates) ==
    IF getAccountById(tbl, id) = None
    THEN [err |-> "notfound", tbl |-> tbl]
    ELSE updateRow(tbl, id, getAccountById(tbl, id)[1], updates)

\* An UPDATE ... SET is_active = flag without its WHERE clause.
setActiveAll(tbl, id, flag) == {[r EXCEPT !.is_active = flag] : r \in tbl}

\* disableAccount / enableAccount: UPDATE ... SET is_active = flag.
setActive(tbl, id, flag) ==
    {IF r.id = id THEN [r EXCEPT !.is_active = flag] ELSE r : r \in tbl}

\* updateLastSync: UPDATE ... SET last_sync_at = CURRENT_TIMESTAMP,
\* sync_error = error || null ("" is null).  No method of the services and no
\* handler calls it.
updateLastSync(tbl, id, error, t) ==
    {IF r.id = id THEN [r EXCEPT !.last_sync_at = Some(t), !.sync_error = error]
     ELSE r : r \in tbl}

\* listActiveAccounts: the rows with is_active = 1.
activeRows(tbl) == {r \in tbl : r.is_active = 1}

\* A foreign key without ON DELETE CASCADE.
noCascade(rows, id) == rows

\* FOREIGN KEY (account_id) ... ON DELETE CASCADE: the rows of
\* email_search_results that reference the deleted account go with it.
cascadeDelete(rows, id) ==
    [r \in {x \in BagToSet(rows) : x.account_id # id} |-> rows[r]]

\* A DELETE FROM email_accounts without its WHERE clause.
deleteEvery(tbl, rows, id) ==
    [changes |-> Cardinality(tbl), tbl |-> {}, rows |-> EmptyBag]

\* deleteAccount: DELETE FROM email_accounts WHERE id = ?
deleteAccount(tbl, rows, id) ==
    [changes |-> Cardinality({r \in tbl : r.id = id}),
     tbl |-> {r \in tbl : r.id # id},
     rows |-> cascadeDelete(rows, id)]

(***************************************************************************)
(* email-search-service.ts: classifyEmail                                  *)
(*                                                                         *)
(* A text is a sequence of atoms: maximal runs of word characters, and the *)
(* single characters between them.  A keyword that begins and ends with a  *)
(* word character matches, under \b...\b, exactly where its atoms occur    *)
(* as consecutive atoms of the text.                                       *)
(***************************************************************************)
DEFAULT_URGENT_KEYWORDS ==
    <<"urgent", "asap", "critical", "emergency", "immediately", "rush",
      "time-sensitive", "deadline", "important", "high priority",
      "action required", "attention needed">>

DEFAULT_IMPORTANT_KEYWORDS ==
    <<"meeting", "conference", "presentation", "proposal", "deal",
      "contract", "agreement", "approval", "review", "approval needed",
      "signature", "confirmation", "important">>

KeywordWeight == 15
KeywordCap == 50
UnreadUrgency == 20
UnreadImportance == 10
AttachmentImportance == 25
LabelBonus == 30
RecentUrgency == 15
MaxScore == 100
Threshold == 30
HoursPerDay == 24

Min(a, b) == IF a <= b THEN a ELSE b

\* String.prototype.toLowerCase on one atom.
Lower(w) ==
    CASE w = "ASAP" -> "asap"
      [] w = "Need" -> "need"
      [] w = "Urgent" -> "urgent"
      [] w = "URGENT" -> "urgent"
      [] w = "Meeting" -> "meeting"
      [] OTHER -> w

toLowerCase(text) == [i \in DOMAIN text |-> Lower(text[i])]

\* The atoms of a keyword string.
Atoms(keyword) ==
    CASE keyword = "time-sensitive" -> <<"time", "-", "sensitive">>
      [] keyword = "high priority" -> <<"high", " ", "priority">>
      [] keyword = "action required" -> <<"action", " ", "required">>
      [] keyword = "attention needed" -> <<"attention", " ", "needed">>
      [] keyword = "approval needed" -> <<"approval", " ", "needed">>
      [] keyword = "[urgent]" -> <<"[", "urgent", "]">>
      [] OTHER -> <<keyword>>

\* new RegExp(`\\b${keyword}\\b`, 'gi'): the keyword is put into the pattern
\* as it is, so the characters of the pattern language in it keep their
\* meaning.  The pattern is a sequence of sets of atoms, one set for each
\* atom it matches in turn, in lower case for flag i: a keyword of letters,
\* spaces and hyphens matches its own atoms; "[urgent]" is a class of six
\* letters, and between two \b it matches a word of one letter of the six.
RegExpOf(keyword) ==
    IF keyword = "[urgent]"
    THEN <<{"u", "r", "g", "e", "n", "t"}>>
    ELSE [j \in DOMAIN Atoms(keyword) |-> {Lower(Atoms(keyword)[j])}]

\* The pattern k matches the lower-case text at atom i.
MatchesAt(text, k, i) ==
    /\ i + Len(k) - 1 <= Len(text)
    /\ \A j \in DOMAIN k : text[i + j - 1] \in k[j]

\* text.match(regex) with flag g: the number of matches from atom i on, found
\* left to right, each search resuming after the previous match.
RECURSIVE CountMatches(_, _, _)
CountMatches(text, k, i) ==
    IF i > Len(text) THEN 0
    ELSE IF MatchesAt(text, k, i)
    THEN 1 + CountMatches(text, k, i + Len(k))
    ELSE CountMatches(text, k, i + 1)

\* One keyword loop of classifyEmail, from keyword i on; acc is the score
\* added and the reasons pushed so far.
RECURSIVE KeywordLoop(_, _, _, _, _)
KeywordLoop(text, keywords, what, i, acc) ==
    IF i > Len(keywords) THEN acc
    ELSE LET matches == CountMatches(text, RegExpOf(keywords[i]), 1)
         IN  KeywordLoop(text, keywords, what, i + 1,
                 IF matches > 0
                 THEN [score |-> acc.score + Min(matches * KeywordWeight, KeywordCap),
                       reasons |-> Append(acc.reasons,
                                     [reason |-> what, keyword |-> keywords[i]])]
                 ELSE acc)

Reason(text) == [reason |-> text, keyword |-> ""]

\* A classifier that runs the loop of the important keywords before the
\* loop of the urgent ones.
pushImportantFirst(urgent, important, unread, attachments, labelled, recent) ==
    important \o urgent
    \o (IF unread THEN <<Reason("Email is unread")>> ELSE <<>>)
    \o (IF attachments THEN <<Reason("Email has attachments")>> ELSE <<>>)
    \o (IF labelled THEN <<Reason("Marked as important/starred in Gmail")>> ELSE <<>>)
    \o (IF recent THEN <<Reason("Received within last 24 hours")>> ELSE <<>>)

\* The calls of reasons.push of classifyEmail, in the order of its steps:
\* `urgent` and `important` are the reasons its two keyword loops push.
pushReasons(urgent, important, unread, attachments, labelled, recent) ==
    urgent \o important
    \o (IF unread THEN <<Reason("Email is unread")>> ELSE <<>>)
    \o (IF attachments THEN <<Reason("Email has attachments")>> ELSE <<>>)
    \o (IF labelled THEN <<Reason("Marked as important/starred in Gmail")>> ELSE <<>>)
    \o (IF recent THEN <<Reason("Received within last 24 hours")>> ELSE <<>>)

\* A classifier that matches the keywords of the account and the built-in
\* ones too.
chooseBoth(custom, defaults) == custom \o defaults

\* custom.length > 0 ? custom : DEFAULT_..._KEYWORDS
chooseKeywords(custom, defaults) ==
    IF Len(custom) > 0 THEN custom ELSE defaults

\* classifyEmail(message, account), called when the clock shows t: the scores
\* and the reasons before the return statement.
accumulate(message, account, t) ==
    LET text == toLowerCase(message.subject \o <<" ">> \o message.snippet)
        urgentKeywords == chooseKeywords(account.customUrgentKeywords,
                                         DEFAULT_URGENT_KEYWORDS)
        importantKeywords == chooseKeywords(account.customImportantKeywords,
                                            DEFAULT_IMPORTANT_KEYWORDS)
        u1 == KeywordLoop(text, urgentKeywords, "Contains urgent keyword", 1,
                          [score |-> 0, reasons |-> <<>>])
        i1 == KeywordLoop(text, importantKeywords, "Contains important keyword", 1,
                          [score |-> 0, reasons |-> <<>>])
        unread == ~ message.isRead
        u2 == u1.score + (IF unread THEN UnreadUrgency ELSE 0)
        i2 == i1.score + (IF unread THEN UnreadImportance ELSE 0)
        i3 == i2 + (IF message.hasAttachments THEN AttachmentImportance ELSE 0)
        labelled == /\ account.provider = "gmail"
                    /\ ("IMPORTANT" \in message.labels \/ "STARRED" \in message.labels)
        u4 == IF labelled THEN Min(u2 + LabelBonus, MaxScore) ELSE u2
        i4 == IF labelled THEN Min(i3 + LabelBonus, MaxScore) ELSE i3
        recent == (t - message.receivedAt) < HoursPerDay
        u5 == u4 + (IF recent THEN RecentUrgency ELSE 0)
    IN  [urgencyScore |-> u5,
         importanceScore |-> i4,
         reasons |-> pushReasons(u1.reasons, i1.reasons, unread,
                                 message.hasAttachments, labelled, recent)]

\* classifyEmail with the final Math.min left out.
classifyEmailNoClamp(message, account, t) ==
    LET r == accumulate(message, account, t)
    IN  [isUrgent |-> r.urgencyScore >= Threshold,
         isImportant |-> r.importanceScore >= Threshold,
         urgencyScore |-> r.urgencyScore,
         importanceScore |-> r.importanceScore,
         reasons |-> r.reasons]

\* classifyEmail: the return statement.
classifyEmail(message, account, t) ==
    LET r == accumulate(message, account, t)
    IN  [isUrgent |-> r.urgencyScore >= Threshold,
         isImportant |-> r.importanceScore >= Threshold,
         urgencyScore |-> Min(r.urgencyScore, MaxScore),
         importanceScore |-> Min(r.importanceScore, MaxScore),
         reasons |-> r.reasons]

\* The messages the providers hold.  M1 and M1b have the same id.
M1 == [id |-> "m1", subject |-> <<"ASAP", " ", "asap">>, snippet |-> <<>>,
       isRead |-> FALSE, hasAttachments |-> FALSE, labels |-> {},
       receivedAt |-> -12]
M1b == [M1 EXCEPT !.isRead = TRUE]
M2 == [id |-> "m2", subject |-> <<"Meeting">>, snippet |-> <<"review">>,
       isRead |-> TRUE, hasAttachments |-> FALSE, labels |-> {"STARRED"},
       receivedAt |-> -48]
Messages == {M1, M1b, M2}

\* Two more messages: one with an attachment and an important keyword, one
\* with nothing that counts.
M3 == [id |-> "m3", subject |-> <<"Meeting">>, snippet |-> <<>>,
       isRead |-> TRUE, hasAttachments |-> TRUE, labels |-> {},
       receivedAt |-> -48]
M4 == [id |-> "m4", subject |-> <<>>, snippet |-> <<>>,
       isRead |-> TRUE, hasAttachments |-> FALSE, labels |-> {},
       receivedAt |-> -48]

KeywordLists == {<<>>, <<"asap">>}

(***************************************************************************)
(* email-search-service.ts: searchEmails and cacheSearchResult             *)
(***************************************************************************)
DefaultMaxResults == 50

\* The row cacheSearchResult writes (column cached_at left out).
CacheRow(accountId, message, c) ==
    [account_id |-> accountId,
     message_id |-> message.id,
     subject |-> message.subject,
     snippet |-> message.snippet,
     labels |-> JSONstringify(message.labels),
     is_urgent |-> IF c.isUrgent THEN 1 ELSE 0,
     is_important |-> IF c.isImportant THEN 1 ELSE 0,
     urgency_score |-> c.urgencyScore,
     importance_score |-> c.importanceScore,
     importance_reason |-> JSONstringify(c.reasons),
     received_at |-> message.receivedAt,
     is_read |-> IF message.isRead THEN 1 ELSE 0,
     has_attachments |-> IF message.hasAttachments THEN 1 ELSE 0]

\* INSERT OR REPLACE under UNIQUE(account_id, message_id): the rows in
\* conflict with the new one are deleted, then the new one is inserted.
Conflicting(rows, row) ==
    {x \in BagToSet(rows) :
        x.account_id = row.account_id /\ x.message_id = row.message_id}

\* A plain INSERT with no constraint on the table.
insertPlain(rows, row) == rows (+) SetToBag({row})

insertOrReplace(rows, row) ==
    LET kept == BagToSet(rows) \ Conflicting(rows, row)
    IN  [x \in kept |-> rows[x]] (+) SetToBag({row})

\* cacheSearchResult on a table without the foreign key on account_id.
cacheWithoutForeignKey(rows, tbl, accountId, message, c) ==
    insertOrReplace(rows, CacheRow(accountId, message, c))

\* cacheSearchResult: the write fails on the foreign key when the account is
\* no longer in email_accounts; the error is caught and logged.
cacheSearchResult(rows, tbl, accountId, message, c) ==
    IF \E a \in tbl : a.id = accountId
    THEN insertOrReplace(rows, CacheRow(accountId, message, c))
    ELSE rows

\* The ClassifiedEmail pushed to allResults.
ClassifiedEmail(message, account, c) ==
    [id |-> message.id,
     accountId |-> account.id,
     accountName |-> account.accountName,
     subject |-> message.subject,
     snippet |-> message.snippet,
     receivedAt |-> message.receivedAt,
     isRead |-> message.isRead,
     hasAttachments |-> message.hasAttachments,
     isUrgent |-> c.isUrgent,
     isImportant |-> c.isImportant,
     urgencyScore |-> c.urgencyScore,
     importanceScore |-> c.importanceScore,
     importanceReason |-> c.reasons]

\* The key of the seen set, `${account.id}:${msg.id}`: the account id is a
\* number, so the text up to the first colon determines it and the rest is
\* the message id.
Key(accountId, messageId) == <<accountId, messageId>>

\* A seen set that forgets.
seenNothing(seen, key) == FALSE

\* seen.has(key)
seenHas(seen, key) == key \in seen

\* The loop over the messages with a cacheSearchResult that lets the error
\* of a failed write out: the error ends the loop, in the catch block of the
\* loop over the accounts.
RECURSIVE classifyMessagesUncaught(_, _, _, _, _, _)
classifyMessagesUncaught(st, account, messages, k, t, tbl) ==
    IF k > Len(messages) THEN st
    ELSE
    LET msg == messages[k]
        key == Key(account.id, msg.id)
        c == classifyEmail(msg, account, t)
    IN  IF seenHas(st.seen, key)
        THEN classifyMessagesUncaught(st, account, messages, k + 1, t, tbl)
        ELSE IF ~ \E a \in tbl : a.id = account.id
        THEN [st EXCEPT !.seen = @ \cup {key}]
        ELSE classifyMessagesUncaught(
                 [st EXCEPT !.seen = @ \cup {key},
                            !.rows = cacheSearchResult(@, tbl, account.id, msg, c),
                            !.allResults = Append(@, ClassifiedEmail(msg, account, c))],
                 account, messages, k + 1, t, tbl)

\* The body of the loop over the messages of one account, from message k on.
\* st is [allResults, seen, rows, raised].
RECURSIVE classifyMessages(_, _, _, _, _, _)
classifyMessages(st, account, messages, k, t, tbl) ==
    IF k > Len(messages) THEN st
    ELSE
    LET msg == messages[k]
        key == Key(account.id, msg.id)
        c == classifyEmail(msg, account, t)
        next == IF ~ seenHas(st.seen, key)
                THEN [st EXCEPT
                        !.seen = @ \cup {key},
                        !.rows = cacheSearchResult(@, tbl, account.id, msg, c),
                        !.allResults = Append(@, ClassifiedEmail(msg, account, c))]
                ELSE st
    IN  classifyMessages(next, account, messages, k + 1, t, tbl)

\* The catch block with a rethrow in it.
catchAndRethrow(st) == [st EXCEPT !.raised = TRUE]

\* The catch block of the loop over the accounts: log, go on.
catchSearchError(st) == st

\* One turn of the loop over the accounts, once the provider has answered:
\* outcome is [ok |-> FALSE] (client.search threw) or
\* [ok |-> TRUE, messages |-> the messages it returned].
searchAccount(st, account, outcome, t, tbl) ==
    IF outcome.ok
    THEN classifyMessages(st, account, outcome.messages, 1, t, tbl)
    ELSE catchSearchError(st)

\* The score with both parts weighted the same.
sortScoreUnweighted(a) == a.urgencyScore + a.importanceScore

\* a.urgencyScore * 2 + a.importanceScore
sortScore(a) == a.urgencyScore * 2 + a.importanceScore

\* Array.prototype.sort with (a, b) => bScore - aScore; the sort is stable.
RECURSIVE insertSorted(_, _)
insertSorted(sorted, e) ==
    IF sorted = <<>> THEN <<e>>
    ELSE IF sortScore(sorted[Len(sorted)]) - sortScore(e) >= 0
    THEN Append(sorted, e)
    ELSE Append(insertSorted(SubSeq(sorted, 1, Len(sorted) - 1), e),
                sorted[Len(sorted)])

RECURSIVE sortResults(_)
sortResults(list) ==
    IF list = <<>> THEN <<>>
    ELSE insertSorted(sortResults(SubSeq(list, 1, Len(list) - 1)), list[Len(list)])

\* Array.prototype.slice(0, n)
slice(list, n) ==
    LET end == IF n < 0 THEN (IF Len(list) + n > 0 THEN Len(list) + n ELSE 0)
               ELSE Min(n, Len(list))
    IN  SubSeq(list, 1, end)

(***************************************************************************)
(* email-tools-handlers.ts: the account tools                              *)
(***************************************************************************)

\* The parameters of add_email_account, all present.
FullParams(n, p) ==
    [accountName |-> n, email |-> IF n = "work" THEN "w@x" ELSE "h@x", provider |-> p,
     refreshToken |-> "rt", host |-> "h", port |-> 993,
     username |-> "u", password |-> "pw", defaultMailbox |-> "",
     customUrgentKeywords |-> None, customImportantKeywords |-> None]

ParamFields == {"accountName", "email", "provider", "refreshToken",
                "host", "port", "username", "password"}

\* The same parameters with one of them left out.
Without(params, f) == [params EXCEPT ![f] = IF f = "port" THEN 0 ELSE ""]

AddRequests ==
    {FullParams(n, p) : n \in Names, p \in Providers}
    \cup {Without(FullParams("work", p), f) : p \in Providers, f \in ParamFields}
    \cup {[FullParams("home", "imap") EXCEPT !.customUrgentKeywords = Some(<<"asap">>)],
          FullParams("home", "pop3")}

\* The configuration addEmailAccount hands to the service.
accountConfig(params) ==
    [accountName |-> params.accountName,
     email |-> params.email,
     provider |-> params.provider,
     providerConfig |-> IF params.provider = "gmail"
                        THEN [refreshToken |-> params.refreshToken]
                        ELSE [host |-> params.host, port |-> params.port,
                              username |-> params.username,
                              password |-> params.password, tls |-> TRUE],
     defaultMailbox |-> params.defaultMailbox,
     includeSent |-> None,
     includeArchived |-> None,
     autoDetectPriority |-> None,
     customUrgentKeywords |-> params.customUrgentKeywords,
     customImportantKeywords |-> params.customImportantKeywords]

\* addEmailAccount with the checks of the parameters left out.
addEmailAccountUnchecked(tbl, id, params, t) ==
    addAccount(tbl, id, accountConfig(params), t)

\* What addEmailAccount answers and leaves behind: [err, tbl, id].
addEmailAccount(tbl, id, params, t) ==
    IF params.accountName = "" \/ params.email = "" \/ params.provider = ""
    THEN [err |-> "validation", tbl |-> tbl, id |-> 0]
    ELSE IF params.provider = "gmail" /\ params.refreshToken = ""
    THEN [err |-> "validation", tbl |-> tbl, id |-> 0]
    ELSE IF params.provider = "imap"
            /\ (params.host = "" \/ params.port = 0
                \/ params.username = "" \/ params.password = "")
    THEN [err |-> "validation", tbl |-> tbl, id |-> 0]
    ELSE addAccount(tbl, id, accountConfig(params), t)

NoCall == [op |-> "none"]

\* addEmailAccount, for the requests of Requests; at most MaxAccounts
\* requests succeed.
AddEmailAccount(Requests) ==
    /\ \E params \in Requests :
         LET r == addEmailAccount(accounts, lastInsertRowid(accounts, nextId),
                                  params, now)
         IN  /\ r.err = "" => nextId <= MaxAccounts
             /\ accounts' = r.tbl
             /\ nextId' = IF r.err = "" THEN nextId + 1 ELSE nextId
             /\ last' = [op |-> "add", params |-> params, err |-> r.err,
                         accountId |-> r.id]
    /\ UNCHANGED <<cache, now, calls, probe>>

\* removeEmailAccount, for the account ids of Ids
RemoveEmailAccount(Ids) ==
    /\ \E accountId \in Ids :
         IF accountId = 0
         THEN /\ last' = [op |-> "remove", accountId |-> accountId,
                          err |-> "validation"]
              /\ UNCHANGED <<accounts, cache>>
         ELSE IF getAccountById(accounts, accountId) = None
         THEN /\ last' = [op |-> "remove", accountId |-> accountId,
                          err |-> "notfound"]
              /\ UNCHANGED <<accounts, cache>>
         ELSE LET r == deleteAccount(accounts, cache, accountId)
              IN  /\ accounts' = r.tbl
                  /\ cache' = r.rows
                  /\ last' = [op |-> "remove", accountId |-> accountId,
                              err |-> IF r.changes > 0 THEN "" ELSE "failed"]
    /\ UNCHANGED <<nextId, now, calls, probe>>

\* disableEmailAccount (flag 0) and enableEmailAccount (flag 1), for the
\* account ids of Ids
SetActive(op, flag, Ids) ==
    /\ \E accountId \in Ids :
         IF accountId = 0
         THEN /\ last' = [op |-> op, accountId |-> accountId, err |-> "validation"]
              /\ UNCHANGED accounts
         ELSE IF getAccountById(accounts, accountId) = None
         THEN /\ last' = [op |-> op, accountId |-> accountId, err |-> "notfound"]
              /\ UNCHANGED accounts
         ELSE /\ accounts' = setActive(accounts, accountId, flag)
              /\ last' = [op |-> op, accountId |-> accountId, err |-> ""]
    /\ UNCHANGED <<nextId, cache, now, calls, probe>>

DisableEmailAccount(Ids) == SetActive("disable", 0, Ids)
EnableEmailAccount(Ids) == SetActive("enable", 1, Ids)

\* A partial EmailAccountConfig with no field provided.
NoUpdates ==
    [accountName |-> "", email |-> "", provider |-> "", providerConfig |-> None,
     defaultMailbox |-> "", includeSent |-> None, includeArchived |-> None,
     autoDetectPriority |-> None, customUrgentKeywords |-> None,
     customImportantKeywords |-> None]

\* The updates a caller of updateAccount provides: names and keyword lists.
Updates ==
    {[NoUpdates EXCEPT !.accountName = n, !.customUrgentKeywords = k] :
        n \in {""} \cup Names, k \in {None, Some(<<>>), Some(<<"asap">>)}}

\* Updates of one field each, and of two.
FieldUpdates ==
    {NoUpdates,
     [NoUpdates EXCEPT !.accountName = "home"],
     [NoUpdates EXCEPT !.email = "n@x"],
     [NoUpdates EXCEPT !.providerConfig = Some([refreshToken |-> "rt2"])],
     [NoUpdates EXCEPT !.includeSent = Some(TRUE),
                       !.autoDetectPriority = Some(FALSE)],
     [NoUpdates EXCEPT !.defaultMailbox = "Sent",
                       !.customUrgentKeywords = Some(<<"asap">>)]}

\* EmailAccountService.updateAccount, called with the updates of Requests.
UpdateAccount(Requests) ==
    /\ \E id \in 1..MaxAccounts, updates \in Requests :
         LET r == updateAccount(accounts, id, updates)
         IN  /\ accounts' = r.tbl
             /\ last' = [op |-> "update", accountId |-> id, updates |-> updates,
                         err |-> r.err]
    /\ UNCHANGED <<nextId, cache, now, calls, probe>>

\* The parameters of update_email_account besides accountId: a string not
\* provided is "", a list not provided is <<>>.
UpdateToolParams ==
    {[defaultMailbox |-> "Sent", customUrgentKeywords |-> None,
      customImportantKeywords |-> None],
     [defaultMailbox |-> "", customUrgentKeywords |-> Some(<<"asap">>),
      customImportantKeywords |-> None]}

\* updateEmailAccount, for the account ids of Ids (0 is a missing id).
UpdateEmailAccount(Ids, Params) ==
    /\ \E accountId \in Ids, params \in Params :
         IF accountId = 0
         THEN /\ last' = [op |-> "updateTool", accountId |-> accountId,
                          params |-> params, err |-> "validation"]
              /\ UNCHANGED accounts
         ELSE IF getAccountById(accounts, accountId) = None
         THEN /\ last' = [op |-> "updateTool", accountId |-> accountId,
                          params |-> params, err |-> "notfound"]
              /\ UNCHANGED accounts
         ELSE LET updates == [NoUpdates EXCEPT
                                !.defaultMailbox = params.defaultMailbox,
                                !.customUrgentKeywords = params.customUrgentKeywords,
                                !.customImportantKeywords =
                                    params.customImportantKeywords]
                  r == updateAccount(accounts, accountId, updates)
              IN  /\ accounts' = r.tbl
                  /\ last' = [op |-> "updateTool", accountId |-> accountId,
                              params |-> params, err |-> r.err]
    /\ UNCHANGED <<nextId, cache, now, calls, probe>>

\* EmailAccountService.deleteAccount, called with the ids of Ids.
DeleteAccount(Ids) ==
    /\ \E id \in Ids :
         LET r == deleteAccount(accounts, cache, id)
         IN  /\ accounts' = r.tbl
             /\ cache' = r.rows
             /\ last' = [op |-> "delete", accountId |-> id,
                         returned |-> r.changes > 0]
    /\ UNCHANGED <<nextId, now, calls, probe>>

\* The clock advances.
Tick ==
    /\ now < MaxHours
    /\ now' = now + TickHours
    /\ UNCHANGED <<accounts, nextId, cache, calls, last, probe>>

(***************************************************************************)
(* email-tools-handlers.ts: searchEmails                                   *)
(***************************************************************************)
MaxResultsLimit == 500

MaxAnswer == 2      \* messages in one answer of a provider

\* What a search of a provider can do: throw, or return messages.
Outcomes ==
    {[ok |-> FALSE]}
    \cup {[ok |-> TRUE, messages |-> m] :
            m \in UNION {[1..n -> Messages] : n \in 0..MaxAnswer}}

\* The account id lists a caller gives.
AccountLists == UNION {[1..n -> 1..MaxAccounts] : n \in 0..2}

SearchParams ==
    [query : {"q", ""},
     accounts : {None} \cup {Some(l) : l \in AccountLists},
     maxResults : {None, Some(-1), Some(0), Some(2), Some(501)}]

\* The score floors a caller gives (0 and undefined are the same to the handler).
Floors ==
    {[minUrgencyScore |-> 0, minImportanceScore |-> 0],
     [minUrgencyScore |-> 30, minImportanceScore |-> 0],
     [minUrgencyScore |-> 0, minImportanceScore |-> 30]}

\* client.search(...) for the account: ImapClient.search returns what
\* searchWithImap does, which is no message; GmailClient.search returns the
\* messages the Gmail API lists, or throws when a request fails.  What the API
\* answers is not the repository's: any of Answers.
clientSearch(account, Answers) ==
    IF account.provider = "imap"
    THEN {[ok |-> TRUE, messages |-> <<>>]}
    ELSE Answers

\* new GmailClient(account): this.accessToken = config.accessToken || ''.
GmailClient(account) ==
    [accessToken |-> IF "accessToken" \in DOMAIN account.providerConfig
                     THEN account.providerConfig.accessToken ELSE ""]

\* searchMessages: the request to the Gmail API for search(options).
searchMessages(client, options) ==
    [authorization |-> client.accessToken,
     q |-> options.query,
     maxResults |-> IF options.maxResults = 0 THEN 10 ELSE options.maxResults]

\* What client.search(options) of the client of the account sends: the
\* request of GmailClient (<<request>>), nothing for ImapClient (<<>>), whose
\* searchWithImap opens no connection.
clientRequest(account, options) ==
    IF account.provider = "gmail"
    THEN Some(searchMessages(GmailClient(account), options))
    ELSE None

\* A service that asks a client for maxResults messages, without headroom.
searchWithoutHeadroom(query, maxResults) ==
    [query |-> query, maxResults |-> maxResults]

\* The options searchEmails of the service calls client.search with.
searchOptions(query, maxResults) ==
    [query |-> query, maxResults |-> maxResults * 2]

\* A tool call that fans out over accounts: which tool (op), its parameters,
\* where it stands (pc), the error it failed with, and the locals of the
\* service method: the accounts to search, the index i of the account whose
\* provider is asked, the ids of the accounts whose provider call threw, what
\* the provider asked last did, the results and the seen set; for
\* getUrgentEmails also the query q the client is at, how many of the
\* account's queries threw, the messages msgs the client has, the list
\* `messages` the client asked last returned, and the two
\* buckets, and the messages the clients have returned, each with the id of
\* its account (fetched); options is what the search of the client asked
\* last was called with (<<options>>), request what that client sent.  ret is what searchEmails of the service returns,
\* urgent and important what getUrgentAndImportantEmails returns, out what the
\* handler answers; floors are the score floors of search_emails.
IdleCall ==
    [op |-> "none", params |-> <<>>,
     pc |-> "idle", err |-> "", maxResults |-> 0, accts |-> <<>>, i |-> 0,
     failed |-> {},
     answer |-> [ok |-> FALSE], allResults |-> <<>>, seen |-> {}, ret |-> <<>>,
     q |-> 0, threw |-> 0, msgs |-> <<>>, fetched |-> {},
     urgentEmails |-> <<>>, importantEmails |-> <<>>,
     urgent |-> <<>>, important |-> <<>>,
     floors |-> [minUrgencyScore |-> 0, minImportanceScore |-> 0],
     accountId |-> 0, account |-> <<>>,
     messages |-> <<>>,
     options |-> <<>>, request |-> <<>>,
     out |-> <<>>]

Failed(op, params, err) ==
    [IdleCall EXCEPT !.op = op, !.params = params, !.pc = "failed", !.err = err]

\* A resolution of the listed ids that drops the inactive accounts too.
RECURSIVE resolveActiveOnly(_, _, _)
resolveActiveOnly(tbl, ids, k) ==
    IF k > Len(ids) THEN <<>>
    ELSE getAccountById(activeRows(tbl), ids[k]) \o resolveActiveOnly(tbl, ids, k + 1)

\* accounts.map(id => getAccountById(id)).filter(Boolean), from id k on.
RECURSIVE resolveAccounts(_, _, _)
resolveAccounts(tbl, ids, k) ==
    IF k > Len(ids) THEN <<>>
    ELSE getAccountById(tbl, ids[k]) \o resolveAccounts(tbl, ids, k + 1)

\* listActiveAccounts: the active accounts ORDER BY created_at DESC, in any
\* order the database may give to rows of equal created_at.
listActiveAccounts(tbl) ==
    LET rows == activeRows(tbl)
        n == Cardinality(rows)
    IN  {[i \in 1..n |-> rowToAccount(f[i])] :
            f \in {g \in [1..n -> rows] :
                     /\ \A i, j \in 1..n : i # j => g[i] # g[j]
                     /\ \A i, j \in 1..n : i < j => g[i].created_at >= g[j].created_at}}

\* listAllAccounts: every account ORDER BY created_at DESC, in any order the
\* database may give to rows of equal created_at.
listAllAccounts(tbl) ==
    LET n == Cardinality(tbl)
    IN  {[i \in 1..n |-> rowToAccount(f[i])] :
            f \in {g \in [1..n -> tbl] :
                     /\ \A i, j \in 1..n : i # j => g[i] # g[j]
                     /\ \A i, j \in 1..n : i < j => g[i].created_at >= g[j].created_at}}

\* The account item of listEmailAccounts.
listItem(acc) ==
    [id |-> acc.id,
     accountName |-> acc.accountName,
     email |-> acc.email,
     provider |-> acc.provider,
     isActive |-> acc.isActive,
     lastSyncAt |-> acc.lastSyncAt,
     syncError |-> acc.syncError,
     defaultMailbox |-> acc.defaultMailbox,
     createdAt |-> acc.createdAt]

\* listEmailAccounts: the accounts the service lists, all of them or the
\* active ones, each as an item.
ListEmailAccounts ==
    /\ \E includeInactive \in BOOLEAN :
       \E accts \in (IF includeInactive THEN listAllAccounts(accounts)
                     ELSE listActiveAccounts(accounts)) :
         last' = [op |-> "list", includeInactive |-> includeInactive,
                  count |-> Len(accts),
                  accounts |-> [k \in DOMAIN accts |-> listItem(accts[k])]]
    /\ UNCHANGED <<accounts, nextId, cache, now, calls, probe>>

Emails == {"w@x", "h@x"}

\* The read methods of EmailAccountService, called with every argument.
ReadAccount ==
    /\ \/ \E id \in 1..MaxAccounts :
             last' = [op |-> "getAccountById", id |-> id,
                      out |-> getAccountById(accounts, id)]
       \/ \E name \in Names :
             last' = [op |-> "getAccountByName", accountName |-> name,
                      out |-> getAccountByName(accounts, name)]
       \/ \E email \in Emails :
          \E account \in getAccountByEmail(accounts, email) :
             last' = [op |-> "getAccountByEmail", email |-> email, out |-> account]
       \/ \E list \in listActiveAccounts(accounts) :
             last' = [op |-> "listActiveAccounts", out |-> list]
       \/ \E list \in listAllAccounts(accounts) :
             last' = [op |-> "listAllAccounts", out |-> list]
    /\ UNCHANGED <<accounts, nextId, cache, now, calls, probe>>

\* Number.prototype.toFixed(2) of a score: the text of its integer part and
\* of its two decimals.
toFixed(score) == [int |-> score \div 100, dec |-> score % 100]

\* The result item of the handler.
ResultItem(email) ==
    [id |-> email.id,
     accountName |-> email.accountName,
     subject |-> email.subject,
     snippet |-> email.snippet,
     receivedAt |-> email.receivedAt,
     isRead |-> email.isRead,
     hasAttachments |-> email.hasAttachments,
     isUrgent |-> email.isUrgent,
     isImportant |-> email.isImportant,
     urgencyScore |-> toFixed(email.urgencyScore),
     importanceScore |-> toFixed(email.importanceScore),
     importanceReason |-> email.importanceReason]

\* A filter that tests the urgency floor alone.
aboveUrgencyFloor(email, floors) ==
    ~ (floors.minUrgencyScore # 0 /\ email.urgencyScore < floors.minUrgencyScore)

\* results.filter(...) of the handler
aboveFloors(email, floors) ==
    /\ ~ (floors.minUrgencyScore # 0 /\ email.urgencyScore < floors.minUrgencyScore)
    /\ ~ (floors.minImportanceScore # 0
          /\ email.importanceScore < floors.minImportanceScore)

RECURSIVE filterResults(_, _)
filterResults(results, floors) ==
    IF results = <<>> THEN <<>>
    ELSE (IF aboveFloors(Head(results), floors)
          THEN <<ResultItem(Head(results))>> ELSE <<>>)
         \o filterResults(Tail(results), floors)

\* What searchEmails of the handler answers from the list of the service.
searchAnswer(query, results, floors) ==
    LET filtered == filterResults(results, floors)
    IN  [query |-> query, totalResults |-> Len(filtered), results |-> filtered]

\* A handler that lets every maxResults through.
exceedsLimitNever(maxResults) == FALSE

\* if (maxResults > 500) throw ..., of searchEmails and of getUrgentEmails
exceedsLimit(maxResults) == maxResults > MaxResultsLimit

\* The accounts whose provider call threw, after the call for `account` ended
\* with `outcome`.
failedNow(failed, account, outcome) ==
    IF outcome.ok THEN failed ELSE failed \cup {account.id}

\* The positions, in the list of accounts of a call, of the accounts whose
\* provider call is in flight: the loop over the accounts awaits the call of
\* one account before it goes on to the next.
inFlight(call) == IF call.pc = "await" THEN {call.i} ELSE {}

\* The handler up to the first provider call of searchEmails: the checks of
\* the handler, the resolution of the accounts.
StartSearch(c, Params) ==
    /\ calls[c].pc = "idle"
    /\ \E params \in Params :
         LET maxResults == IF params.maxResults = None THEN DefaultMaxResults
                           ELSE params.maxResults[1]
         IN  IF params.query = "" \/ exceedsLimit(maxResults)
             THEN calls' = [calls EXCEPT ![c] = Failed("search", params, "validation")]
             ELSE \E accts \in (IF params.accounts # None
                                THEN {resolveAccounts(accounts, params.accounts[1], 1)}
                                ELSE listActiveAccounts(accounts)) :
                    IF Len(accts) = 0
                    THEN calls' = [calls EXCEPT ![c] =
                                     Failed("search", params, "noaccounts")]
                    ELSE calls' = [calls EXCEPT ![c] =
                                     [IdleCall EXCEPT
                                        !.op = "search",
                                        !.params = params,
                                        !.pc = "await",
                                        !.maxResults = maxResults,
                                        !.accts = accts,
                                        !.i = 1,
                                        !.options =
                                            Some(searchOptions(params.query, maxResults)),
                                        !.request =
                                            clientRequest(accts[1],
                                                searchOptions(params.query, maxResults))]]
    /\ UNCHANGED <<accounts, nextId, cache, now, last, probe>>

\* The provider of the account in turn answers: the messages are classified
\* and cached; then the next account is asked, or the results are sorted,
\* cut, filtered by the handler and returned.  The floors are read only here.
\* Answers are the answers the provider may give, FloorSets the floors the
\* caller may have given.
\* Field i is the account whose provider is asked next, field answer what the
\* provider asked last did.
ProviderAnswers(c, Answers, FloorSets) ==
    /\ calls[c].op = "search"
    /\ calls[c].pc = "await"
    /\ \E outcome \in clientSearch(calls[c].accts[calls[c].i], Answers) :
       \E st \in {searchAccount([allResults |-> calls[c].allResults,
                                 seen |-> calls[c].seen,
                                 rows |-> cache,
                                 raised |-> FALSE],
                                calls[c].accts[calls[c].i], outcome, now, accounts)} :
         /\ cache' = st.rows
         /\ IF st.raised
            THEN calls' = [calls EXCEPT ![c] =
                             Failed("search", calls[c].params, "provider")]
            ELSE IF calls[c].i < Len(calls[c].accts)
            THEN calls' = [calls EXCEPT ![c] =
                             [@ EXCEPT !.i = @ + 1,
                                       !.failed = failedNow(@, calls[c].accts[calls[c].i], outcome),
                                       !.answer = outcome,
                                       !.allResults = st.allResults,
                                       !.seen = st.seen,
                                       !.request =
                                           clientRequest(calls[c].accts[calls[c].i + 1],
                                                         calls[c].options[1])]]
            ELSE \E sorted \in {sortResults(st.allResults)} :
                 \E ret \in {slice(sorted, calls[c].maxResults)} :
                 \E floors \in FloorSets :
                   calls' = [calls EXCEPT ![c] =
                               [@ EXCEPT !.pc = "done",
                                         !.failed = failedNow(@, calls[c].accts[calls[c].i], outcome),
                                         !.answer = outcome,
                                         !.allResults = sorted,
                                         !.seen = st.seen,
                                         !.ret = ret,
                                         !.floors = floors,
                                         !.out = searchAnswer(calls[c].params.query,
                                                              ret, floors)]]
    /\ UNCHANGED <<accounts, nextId, now, last, probe>>

(***************************************************************************)
(* email-tools-handlers.ts: getUrgentEmails                                *)
(***************************************************************************)
DefaultUrgentMaxResults == 20

\* The queries getUrgentEmails of the client of the account runs, in order.
urgentQueries(account) ==
    IF account.provider = "gmail"
    THEN <<"is:important", "label:important", "is:starred", "has:red-star",
           "in:inbox newer_than:1d">>
    ELSE <<"FLAGGED", "ALL", "UNSEEN">>

\* The options getUrgentEmails(limit) of a client calls its own search with
\* for its query number q: GmailClient asks for limit, ImapClient for twice.
urgentOptions(account, q, limit) ==
    [query |-> urgentQueries(account)[q],
     maxResults |-> IF account.provider = "gmail" THEN limit ELSE limit * 2]

\* The loop of the client over the messages of one query, from message k on:
\* a message whose id the client has not seen is kept.
RECURSIVE addUnseen(_, _, _)
addUnseen(allMessages, messages, k) ==
    IF k > Len(messages) THEN allMessages
    ELSE addUnseen(IF \E j \in DOMAIN allMessages : allMessages[j].id = messages[k].id
                   THEN allMessages
                   ELSE Append(allMessages, messages[k]),
                   messages, k + 1)

\* The loop of getUrgentAndImportantEmails over the messages of one account,
\* from message k on.  st is [urgentEmails, importantEmails, seen].
RECURSIVE bucketMessages(_, _, _, _, _)
bucketMessages(st, account, messages, k, t) ==
    IF k > Len(messages) THEN st
    ELSE
    LET msg == messages[k]
        key == Key(account.id, msg.id)
        c == classifyEmail(msg, account, t)
        classified == ClassifiedEmail(msg, account, c)
        next == IF ~ seenHas(st.seen, key)
                THEN [seen |-> st.seen \cup {key},
                      urgentEmails |-> IF c.isUrgent
                                       THEN Append(st.urgentEmails, classified)
                                       ELSE st.urgentEmails,
                      importantEmails |-> IF c.isImportant
                                          THEN Append(st.importantEmails, classified)
                                          ELSE st.importantEmails]
                ELSE st
    IN  bucketMessages(next, account, messages, k + 1, t)

\* Array.prototype.sort with (a, b) => b[field] - a[field]; the sort is stable.
RECURSIVE insertByField(_, _, _)
insertByField(sorted, e, field) ==
    IF sorted = <<>> THEN <<e>>
    ELSE IF sorted[Len(sorted)][field] - e[field] >= 0
    THEN Append(sorted, e)
    ELSE Append(insertByField(SubSeq(sorted, 1, Len(sorted) - 1), e, field),
                sorted[Len(sorted)])

RECURSIVE sortByField(_, _)
sortByField(list, field) ==
    IF list = <<>> THEN <<>>
    ELSE insertByField(sortByField(SubSeq(list, 1, Len(list) - 1), field),
                       list[Len(list)], field)

\* The items of the two lists the handler answers.
UrgentItem(email) ==
    [id |-> email.id,
     accountName |-> email.accountName,
     subject |-> email.subject,
     snippet |-> email.snippet,
     receivedAt |-> email.receivedAt,
     isRead |-> email.isRead,
     hasAttachments |-> email.hasAttachments,
     urgencyScore |-> toFixed(email.urgencyScore),
     importanceReason |-> email.importanceReason]

ImportantItem(email) ==
    [id |-> email.id,
     accountName |-> email.accountName,
     subject |-> email.subject,
     snippet |-> email.snippet,
     receivedAt |-> email.receivedAt,
     isRead |-> email.isRead,
     hasAttachments |-> email.hasAttachments,
     importanceScore |-> toFixed(email.importanceScore),
     importanceReason |-> email.importanceReason]

\* onlyUnread ? list.filter(e => !e.isRead) : list
RECURSIVE filterUnread(_, _)
filterUnread(list, onlyUnread) ==
    IF list = <<>> THEN <<>>
    ELSE (IF onlyUnread /\ Head(list).isRead THEN <<>> ELSE <<Head(list)>>)
         \o filterUnread(Tail(list), onlyUnread)

\* What the handler answers from the two lists of the service.
urgentAnswer(urgent, important, onlyUnread) ==
    LET filteredUrgent == filterUnread(urgent, onlyUnread)
        filteredImportant == filterUnread(important, onlyUnread)
    IN  [urgent |-> [count |-> Len(filteredUrgent),
                     emails |-> [k \in DOMAIN filteredUrgent |->
                                   UrgentItem(filteredUrgent[k])]],
         important |-> [count |-> Len(filteredImportant),
                        emails |-> [k \in DOMAIN filteredImportant |->
                                      ImportantItem(filteredImportant[k])]]]

\* The parameters of get_urgent_emails.
UrgentParams ==
    [maxResults : {None, Some(1), Some(501)},
     accounts : {None},
     onlyUnread : BOOLEAN]

\* The handler getUrgentEmails up to the first provider call: the check of
\* maxResults, the active accounts.
StartUrgent(c, Params) ==
    /\ calls[c].pc = "idle"
    /\ \E params \in Params :
         LET maxResults == IF params.maxResults = None THEN DefaultUrgentMaxResults
                           ELSE params.maxResults[1]
         IN  IF exceedsLimit(maxResults)
             THEN calls' = [calls EXCEPT ![c] = Failed("urgent", params, "validation")]
             ELSE \E accts \in listActiveAccounts(accounts) :
                    IF Len(accts) = 0
                    THEN calls' = [calls EXCEPT ![c] =
                                     Failed("urgent", params, "noaccounts")]
                    ELSE calls' = [calls EXCEPT ![c] =
                                     [IdleCall EXCEPT
                                        !.op = "urgent",
                                        !.params = params,
                                        !.pc = "await",
                                        !.maxResults = maxResults,
                                        !.accts = accts,
                                        !.i = 1,
                                        !.q = 1,
                                        !.options =
                                            Some(urgentOptions(accts[1], 1, maxResults * 2)),
                                        !.request =
                                            clientRequest(accts[1],
                                                urgentOptions(accts[1], 1, maxResults * 2))]]
    /\ UNCHANGED <<accounts, nextId, cache, now, last, probe>>

\* The provider answers the query the client of the account in turn is at.
\* A query that throws is logged by the client and skipped.  After the last
\* query the client returns its messages, cut to twice maxResults; the service
\* classifies them and puts them in the buckets; then the next account is
\* asked, or the buckets are sorted, and cut, filtered by the handler and
\* returned.
UrgentAnswers(c, Answers) ==
    /\ calls[c].op = "urgent"
    /\ calls[c].pc = "await"
    /\ \E outcome \in clientSearch(calls[c].accts[calls[c].i], Answers) :
       \E account \in {calls[c].accts[calls[c].i]} :
       \E msgs \in {IF outcome.ok THEN addUnseen(calls[c].msgs, outcome.messages, 1)
                     ELSE calls[c].msgs} :
       \E threw \in {calls[c].threw + (IF outcome.ok THEN 0 ELSE 1)} :
         IF calls[c].q < Len(urgentQueries(account))
         THEN calls' = [calls EXCEPT ![c] =
                          [@ EXCEPT !.q = @ + 1,
                                    !.threw = threw,
                                    !.answer = outcome,
                                    !.msgs = msgs,
                                    !.options =
                                        Some(urgentOptions(account, calls[c].q + 1,
                                                           calls[c].maxResults * 2)),
                                    !.request =
                                        clientRequest(account,
                                            urgentOptions(account, calls[c].q + 1,
                                                          calls[c].maxResults * 2))]]
         ELSE \E messages \in {slice(msgs, calls[c].maxResults * 2)} :
              \E st \in {bucketMessages([urgentEmails |-> calls[c].urgentEmails,
                                          importantEmails |-> calls[c].importantEmails,
                                          seen |-> calls[c].seen],
                                         account, messages, 1, now)} :
              \E fetched \in {calls[c].fetched
                                \cup {<<account.id, messages[k]>> : k \in DOMAIN messages}} :
              \E failed \in {IF threw = Len(urgentQueries(account))
                              THEN calls[c].failed \cup {account.id}
                              ELSE calls[c].failed} :
                IF calls[c].i < Len(calls[c].accts)
                THEN calls' = [calls EXCEPT ![c] =
                                 [@ EXCEPT !.i = @ + 1,
                                           !.q = 1,
                                           !.options =
                                               Some(urgentOptions(
                                                        calls[c].accts[calls[c].i + 1], 1,
                                                        calls[c].maxResults * 2)),
                                           !.request =
                                               clientRequest(
                                                   calls[c].accts[calls[c].i + 1],
                                                   urgentOptions(
                                                       calls[c].accts[calls[c].i + 1], 1,
                                                       calls[c].maxResults * 2)),
                                           !.threw = 0,
                                           !.failed = failed,
                                           !.answer = outcome,
                                           !.msgs = <<>>,
                                           !.messages = messages,
                                           !.fetched = fetched,
                                           !.urgentEmails = st.urgentEmails,
                                           !.importantEmails = st.importantEmails,
                                           !.seen = st.seen]]
                ELSE \E urgentEmails \in {sortByField(st.urgentEmails, "urgencyScore")} :
                     \E importantEmails \in {sortByField(st.importantEmails,
                                                         "importanceScore")} :
                     \E urgent \in {slice(urgentEmails, calls[c].maxResults)} :
                     \E important \in {slice(importantEmails, calls[c].maxResults)} :
                       calls' = [calls EXCEPT ![c] =
                                   [@ EXCEPT !.pc = "done",
                                             !.threw = 0,
                                             !.failed = failed,
                                             !.answer = outcome,
                                             !.msgs = <<>>,
                                             !.messages = messages,
                                             !.fetched = fetched,
                                             !.urgentEmails = urgentEmails,
                                             !.importantEmails = importantEmails,
                                             !.urgent = urgent,
                                             !.important = important,
                                             !.seen = st.seen,
                                             !.out = urgentAnswer(urgent, important,
                                                        calls[c].params.onlyUnread)]]
    /\ UNCHANGED <<accounts, nextId, cache, now, last, probe>>

\* The Gmail API never answers the request of the account in turn: fetch is
\* called without a signal or a timeout, so its promise never settles and
\* the await of the service never resumes.  (searchWithImap returns at once.)
ProviderHangs(c) ==
    /\ calls[c].pc = "await"
    /\ calls[c].accts[calls[c].i].provider = "gmail"
    /\ calls' = [calls EXCEPT ![c] = [@ EXCEPT !.pc = "hung"]]
    /\ UNCHANGED <<accounts, nextId, cache, now, last, probe>>

(***************************************************************************)
(* email-account-service.ts: two callers on one database file              *)
(***************************************************************************)
\* A call of addAccount or updateAccount runs its statements one by one; the
\* engine runs each statement as a whole.  pc is the statement the call runs
\* next: "insert", "select" (the SELECT of updateAccount), "update", "reread"
\* (the getAccountById before the return), or "done".

\* The callers.
Callers == {1, 2}

\* The updateAccount calls that rename a stored account to name n.
Renames(n) ==
    {[op |-> "updateAccount", accountId |-> a.id,
      params |-> [NoUpdates EXCEPT !.accountName = n]] : a \in accounts}

\* The addAccount calls for name n.
Adds(n) ==
    {[op |-> "addAccount", accountId |-> 0, params |-> accountConfig(p)] :
        p \in {FullParams(n, "gmail"), FullParams(n, "imap")}}

\* Two callers ask for one name that no stored account has: one calls
\* addAccount, the other addAccount or a renaming updateAccount.
BeginRace ==
    /\ \A c \in Callers : calls[c].pc = "idle"
    /\ \E n \in Names :
         /\ \A a \in accounts : a.account_name # n
         /\ \E first \in Adds(n), second \in Adds(n) \cup Renames(n) :
              calls' = [c \in Callers |->
                          LET req == IF c = 1 THEN first ELSE second
                          IN  [IdleCall EXCEPT
                                 !.op = req.op, !.params = req.params,
                                 !.accountId = req.accountId,
                                 !.pc = IF req.op = "addAccount"
                                        THEN "insert" ELSE "select"]]
    /\ UNCHANGED <<accounts, nextId, cache, now, last, probe>>

\* stmt.run of addAccount: the INSERT and the catch around it.
InsertAccount(c) ==
    /\ calls[c].pc = "insert"
    /\ LET r == addAccount(accounts, lastInsertRowid(accounts, nextId),
                            calls[c].params, now)
       IN  /\ r.err = "" => nextId <= MaxAccounts
           /\ accounts' = r.tbl
           /\ nextId' = IF r.err = "" THEN nextId + 1 ELSE nextId
           /\ calls' = [calls EXCEPT ![c] =
                          [@ EXCEPT !.err = r.err, !.accountId = r.id,
                                    !.pc = IF r.err = "" THEN "reread" ELSE "done"]]
    /\ UNCHANGED <<cache, now, last, probe>>

\* const account = this.getAccountById(id) of updateAccount.
SelectAccount(c) ==
    /\ calls[c].pc = "select"
    /\ LET account == getAccountById(accounts, calls[c].accountId)
       IN  calls' = [calls EXCEPT ![c] =
                       IF account = None
                       THEN [@ EXCEPT !.err = "notfound", !.pc = "done"]
                       ELSE [@ EXCEPT !.account = account, !.pc = "update"]]
    /\ UNCHANGED <<accounts, nextId, cache, now, last, probe>>

\* stmt.run of updateAccount: the UPDATE; nothing catches what it throws.
RunUpdate(c) ==
    /\ calls[c].pc = "update"
    /\ LET r == updateRow(accounts, calls[c].accountId, calls[c].account[1],
                          calls[c].params)
       IN  /\ accounts' = r.tbl
           /\ calls' = [calls EXCEPT ![c] =
                          [@ EXCEPT !.err = r.err,
                                    !.pc = IF r.err = "" THEN "reread" ELSE "done"]]
    /\ UNCHANGED <<nextId, cache, now, last, probe>>

\* return this.getAccountById(...)! of addAccount and of updateAccount.
RereadAccount(c) ==
    /\ calls[c].pc = "reread"
    /\ calls' = [calls EXCEPT ![c] =
                   [@ EXCEPT !.out = getAccountById(accounts, calls[c].accountId),
                             !.pc = "done"]]
    /\ UNCHANGED <<accounts, nextId, cache, now, last, probe>>

\* Both callers have their answers.
EndRace ==
    /\ \A c \in Callers : calls[c].pc = "done"
    /\ calls' = [c \in Callers |-> IdleCall]
    /\ UNCHANGED <<accounts, nextId, cache, now, last, probe>>

\* The caller has its answer.
Return(c) ==
    /\ calls[c].pc \in {"done", "failed"}
    /\ calls' = [calls EXCEPT ![c] = IdleCall]
    /\ UNCHANGED <<accounts, nextId, cache, now, last, probe>>

(***************************************************************************)
(* Specifications                                                          *)
(***************************************************************************)

NoProbe == [results |-> {}]

Init ==
    /\ accounts = {}
    /\ nextId = 1
    /\ cache = EmptyBag
    /\ now = 0
    /\ calls = [c \in Callers |-> IdleCall]
    /\ last = NoCall
    /\ probe = NoProbe

\* The account tools alone.
RegistryNext ==
    \/ AddEmailAccount(AddRequests)
    \/ RemoveEmailAccount(0..MaxAccounts)
    \/ DisableEmailAccount(0..MaxAccounts)
    \/ EnableEmailAccount(0..MaxAccounts)
    \/ UpdateAccount(Updates)
    \/ Tick

SpecRegistry == Init /\ [][RegistryNext]_vars

\* Accounts are added, each under a name not in use, and one
\* search_emails call is made, with every parameter and every answer of the
\* providers.
SetupRequests ==
    {r \in {FullParams("work", "gmail"), FullParams("home", "gmail"),
            FullParams("home", "imap")} :
        \A a \in accounts : a.account_name # r.accountName}

Next ==
    \/ AddEmailAccount(SetupRequests)
    \/ Tick
    \/ StartSearch(1, SearchParams)
    \/ ProviderAnswers(1, Outcomes, Floors)

Spec == Init /\ [][Next]_vars

\* Searches of two callers in any interleaving, and removals of stored accounts:
\* the first caller searches the active accounts, the second one account by
\* id; a provider answers with nothing or with one state of the message m1.
CacheParams(c) ==
    {p \in SearchParams :
        /\ p.query = "q"
        /\ p.maxResults = None
        /\ IF c = 1 THEN p.accounts = None
           ELSE p.accounts # None /\ Len(p.accounts[1]) = 1}

CacheOutcomes == {o \in Outcomes : o.ok => o.messages \in {<<>>, <<M1>>, <<M1b>>}}

CacheFloors == {[minUrgencyScore |-> 0, minImportanceScore |-> 0]}

CacheNext ==
    \/ AddEmailAccount(SetupRequests)
    \/ RemoveEmailAccount({a.id : a \in accounts})
    \/ \E c \in Callers :
         \/ StartSearch(c, CacheParams(c))
         \/ ProviderAnswers(c, CacheOutcomes, CacheFloors)
         \/ Return(c)

SpecCache == Init /\ [][CacheNext]_vars

\* classifyEmail alone: a message and an account are chosen, then the
\* message is classified again and again while the clock advances.
U4 == <<"Urgent", " ", "urgent", " ", "urgent", " ", "urgent">>

ProbeMessages ==
    [id : {"p"},
     subject : {<<>>, U4},
     snippet : {<<>>, <<"asap", " ", "emergency">>,
                <<"Meeting", " ", "review", " ", "deadline", " ", "important",
                  " ", "priority">>},
     isRead : BOOLEAN,
     hasAttachments : BOOLEAN,
     labels : {{}, {"IMPORTANT"}},
     receivedAt : {-12, -48}]

ProbeAccounts ==
    [provider : Providers,
     customUrgentKeywords : KeywordLists,
     customImportantKeywords : {<<>>, <<"review">>}]

InitClassify ==
    /\ accounts = {}
    /\ nextId = 1
    /\ cache = EmptyBag
    /\ now = 0
    /\ calls = [c \in Callers |-> IdleCall]
    /\ last = NoCall
    /\ probe \in [message : ProbeMessages, account : ProbeAccounts, results : {{}}]

Classify ==
    /\ probe' = [probe EXCEPT
                   !.results = @ \cup {classifyEmail(probe.message, probe.account, now)}]
    /\ UNCHANGED <<accounts, nextId, cache, now, calls, last>>

ClassifyNext == Classify \/ Tick

SpecClassify == InitClassify /\ [][ClassifyNext]_vars

\* classifyEmail on messages whose text has a keyword of the account, a
\* built-in keyword, both or none, once or twice, in upper or lower case.
NeedThisASAP == <<"Need", " ", "this", " ", "ASAP", " ", "please">>

KeywordMessages ==
    [id : {"p"},
     subject : {<<>>, NeedThisASAP, <<"asap", " ", "ASAP", " ", "Urgent">>},
     snippet : {<<>>, <<"asap", " ", "emergency">>, <<"review", " ", "deadline">>},
     isRead : BOOLEAN,
     hasAttachments : {FALSE},
     labels : {{}},
     receivedAt : {-12, -48}]

KeywordAccounts ==
    [provider : {"gmail"},
     customUrgentKeywords : {<<>>, <<"asap">>, <<"emergency", "asap">>},
     customImportantKeywords : {<<>>, <<"review">>}]

InitKeywords ==
    /\ accounts = {}
    /\ nextId = 1
    /\ cache = EmptyBag
    /\ now = 0
    /\ calls = [c \in Callers |-> IdleCall]
    /\ last = NoCall
    /\ probe \in [message : KeywordMessages, account : KeywordAccounts, results : {{}}]

SpecKeywords == InitKeywords /\ [][ClassifyNext]_vars

\* classifyEmail on every combination of its signals: keywords once, four
\* times, inside a longer word and between brackets, unread, attachments,
\* a label, recent; for accounts of both providers with built-in keywords,
\* with a keyword that is a word and with one that has brackets.
BracketUrgent == <<"[", "URGENT", "]", " ", "server", " ", "down">>

ScoreMessages ==
    [id : {"p"},
     subject : {<<>>, U4, BracketUrgent},
     snippet : {<<>>, <<"asap", " ", "emergency">>,
                <<"urgently", " ", "vitamin", " ", "e">>,
                <<"Meeting", " ", "review", " ", "deadline", " ", "important",
                  " ", "priority">>},
     isRead : BOOLEAN,
     hasAttachments : BOOLEAN,
     labels : {{}, {"STARRED"}},
     receivedAt : {-12, -48}]

ScoreAccounts ==
    [provider : Providers,
     customUrgentKeywords : {<<>>, <<"asap">>, <<"[urgent]">>},
     customImportantKeywords : {<<>>, <<"review">>}]

InitScores ==
    /\ accounts = {}
    /\ nextId = 1
    /\ cache = EmptyBag
    /\ now = 0
    /\ calls = [c \in Callers |-> IdleCall]
    /\ last = NoCall
    /\ probe \in [message : ScoreMessages, account : ScoreAccounts, results : {{}}]

SpecScores == InitScores /\ [][ClassifyNext]_vars

\* The two fan-out tools: accounts are added, and one caller calls
\* search_emails and get_urgent_emails.
FanoutParams ==
    {p \in SearchParams : p.query = "q" /\ p.maxResults \in {None, Some(501)}}

FanoutOutcomes ==
    {o \in Outcomes : o.ok => o.messages \in {<<>>, <<M1>>, <<M2, M1b>>}}

UrgentOutcomes == {o \in Outcomes : o.ok => o.messages \in {<<M1>>, <<M2, M1b>>}}

FanoutNext ==
    \/ AddEmailAccount(SetupRequests)
    \/ StartSearch(1, FanoutParams)
    \/ ProviderAnswers(1, FanoutOutcomes, CacheFloors)
    \/ StartUrgent(1, UrgentParams)
    \/ UrgentAnswers(1, UrgentOutcomes)
    \/ Return(1)

SpecFanout == Init /\ [][FanoutNext]_vars

\* The two fan-out tools with providers that answer, or never do.  A
\* provider that is to answer does so, and the service then runs on: the
\* steps ProviderAnswers and UrgentAnswers are fair.
LiveParams ==
    {p \in SearchParams : p.query = "q" /\ p.accounts = None /\ p.maxResults = None}

LiveUrgentParams == {p \in UrgentParams : p.maxResults = None}

LiveOutcomes == {o \in Outcomes : o.ok => o.messages \in {<<M1>>}}

LiveNext ==
    \/ AddEmailAccount(SetupRequests)
    \/ StartSearch(1, LiveParams)
    \/ ProviderAnswers(1, LiveOutcomes, CacheFloors)
    \/ StartUrgent(1, LiveUrgentParams)
    \/ UrgentAnswers(1, LiveOutcomes)
    \/ ProviderHangs(1)
    \/ Return(1)

SpecLive ==
    /\ Init
    /\ [][LiveNext]_vars
    /\ WF_vars(ProviderAnswers(1, LiveOutcomes, CacheFloors))
    /\ WF_vars(UrgentAnswers(1, LiveOutcomes))

\* Searches of two callers over mailboxes that do not change: the provider
\* of an account answers every search with the same messages, those of the
\* account "work" or those of the other accounts; the clock stands still.
Mailbox(account) ==
    [ok |-> TRUE,
     messages |-> IF account.accountName = "work" THEN <<M1>> ELSE <<M1, M2>>]

OrderAnswers(c) ==
    IF calls[c].pc = "await" THEN {Mailbox(calls[c].accts[calls[c].i])} ELSE {}

OrderParams ==
    {p \in SearchParams :
        /\ p.query = "q"
        /\ p.accounts # None
        /\ p.maxResults \in {None, Some(2)}}

OrderNext ==
    \/ AddEmailAccount(SetupRequests)
    \/ \E c \in Callers :
         \/ StartSearch(c, OrderParams)
         \/ ProviderAnswers(c, OrderAnswers(c), CacheFloors)
         \/ Return(c)

SpecOrder == Init /\ [][OrderNext]_vars

\* Searches of one caller over the active accounts, while stored accounts are
\* removed: the cache writes for an account removed since the search started
\* fail.  A provider answers with one message or with two.
FaultOutcomes ==
    {o \in Outcomes : o.ok => o.messages \in {<<M1>>, <<M1, M2>>, <<M2, M1b>>}}

FaultNext ==
    \/ AddEmailAccount(SetupRequests)
    \/ RemoveEmailAccount({a.id : a \in accounts})
    \/ StartSearch(1, CacheParams(1))
    \/ ProviderAnswers(1, FaultOutcomes, CacheFloors)
    \/ Return(1)

SpecFault == Init /\ [][FaultNext]_vars

\* updateAccount alone, on accounts added before.
UpdateNext ==
    \/ AddEmailAccount(SetupRequests)
    \/ UpdateAccount(FieldUpdates)

SpecUpdate == Init /\ [][UpdateNext]_vars

\* search_emails and the account tools that decide which accounts it
\* searches: stored accounts are disabled and enabled while one caller
\* searches, by id list or not.
ResolveNext ==
    \/ AddEmailAccount(SetupRequests)
    \/ DisableEmailAccount({a.id : a \in accounts})
    \/ EnableEmailAccount({a.id : a \in accounts})
    \/ StartSearch(1, FanoutParams)
    \/ ProviderAnswers(1, LiveOutcomes, CacheFloors)
    \/ Return(1)

SpecResolve == Init /\ [][ResolveNext]_vars

\* The registry and its listings: accounts are added, renamed, given another
\* mailbox, disabled, enabled and deleted, by the service or by the tool, and
\* listed, while the clock advances.
ListUpdates ==
    {[NoUpdates EXCEPT !.accountName = "home"],
     [NoUpdates EXCEPT !.defaultMailbox = "Sent"]}

ListsNext ==
    \/ AddEmailAccount(SetupRequests)
    \/ DeleteAccount(1..MaxAccounts)
    \/ RemoveEmailAccount(0..MaxAccounts)
    \/ DisableEmailAccount({a.id : a \in accounts})
    \/ EnableEmailAccount({a.id : a \in accounts})
    \/ UpdateAccount(ListUpdates)
    \/ ListEmailAccounts
    \/ Tick

SpecLists == Init /\ [][ListsNext]_vars

\* The reads of the registry: accounts of both providers are added, given
\* other credentials, and read by the service methods and by the list tool.
ReadRequests == SetupRequests \cup {FullParams("work", "imap")}

ReadUpdates ==
    {[NoUpdates EXCEPT !.providerConfig = Some([refreshToken |-> "rt2"])]}

ReadsNext ==
    \/ AddEmailAccount({r \in ReadRequests :
                           \A a \in accounts : a.account_name # r.accountName})
    \/ UpdateAccount(ReadUpdates)
    \/ DisableEmailAccount({a.id : a \in accounts})
    \/ ReadAccount
    \/ ListEmailAccounts

SpecReads == Init /\ [][ReadsNext]_vars

\* get_urgent_emails alone, with and without an account id list, for a
\* limit that is positive, left out or negative; accounts are added and,
\* between two calls, disabled; a query of a provider throws or returns two
\* messages.
BucketParams ==
    [maxResults : {None, Some(1), Some(-1)},
     accounts : {None, Some(<<1>>)},
     onlyUnread : {FALSE}]

BucketOutcomes ==
    {[ok |-> FALSE],
     [ok |-> TRUE, messages |-> <<M1, M2>>],
     [ok |-> TRUE, messages |-> <<M3, M4>>],
     [ok |-> TRUE, messages |-> <<M2, M1b>>]}

BucketNext ==
    \/ AddEmailAccount(SetupRequests)
    \/ calls[1].pc = "idle" /\ DisableEmailAccount({a.id : a \in accounts})
    \/ StartUrgent(1, BucketParams)
    \/ UrgentAnswers(1, BucketOutcomes)
    \/ Return(1)

SpecUrgent == Init /\ [][BucketNext]_vars

\* search_emails with score floors: one caller searches the active accounts
\* with every pair of floors; a provider throws or answers with one message
\* or with two.
ScoreFloors ==
    [minUrgencyScore : {0, 45, 50}, minImportanceScore : {0, 30}]

FloorParams ==
    {p \in SearchParams :
        p.query = "q" /\ p.accounts = None /\ p.maxResults \in {None, Some(2)}}

FloorOutcomes ==
    {o \in Outcomes : o.ok => o.messages \in {<<M1>>, <<M1b>>, <<M1, M2>>}}

FloorNext ==
    \/ AddEmailAccount(SetupRequests)
    \/ StartSearch(1, FloorParams)
    \/ ProviderAnswers(1, FloorOutcomes, ScoreFloors)
    \/ Return(1)

SpecFloors == Init /\ [][FloorNext]_vars

\* Two callers race for a free name, over a table with no account, with one
\* or with two; between the races accounts are added and the clock advances.
RaceNext ==
    \/ /\ \A c \in Callers : calls[c].pc = "idle"
       /\ AddEmailAccount(SetupRequests)
    \/ /\ \A c \in Callers : calls[c].pc = "idle"
       /\ Tick
    \/ BeginRace
    \/ \E c \in Callers : InsertAccount(c)
    \/ \E c \in Callers : SelectAccount(c)
    \/ \E c \in Callers : RunUpdate(c)
    \/ \E c \in Callers : RereadAccount(c)
    \/ EndRace

SpecRace == Init /\ [][RaceNext]_vars

\* The account tools that take an account id, called with every id, stored
\* or not or missing, and updateAccount of the service, between searches
\* that fill the cache.
MissingUpdates == {[NoUpdates EXCEPT !.defaultMailbox = "Sent"]}

MissingOutcomes == {o \in Outcomes : o.ok => o.messages = <<M1>>}

MissingNext ==
    \/ AddEmailAccount(SetupRequests)
    \/ calls[1].pc = "idle" /\ RemoveEmailAccount(0..MaxAccounts)
    \/ calls[1].pc = "idle" /\ DisableEmailAccount(0..MaxAccounts)
    \/ calls[1].pc = "idle" /\ EnableEmailAccount(0..MaxAccounts)
    \/ calls[1].pc = "idle" /\ UpdateEmailAccount(0..MaxAccounts, UpdateToolParams)
    \/ calls[1].pc = "idle" /\ UpdateAccount(MissingUpdates)
    \/ StartSearch(1, CacheParams(1))
    \/ ProviderAnswers(1, MissingOutcomes, CacheFloors)
    \/ Return(1)

SpecMissing == Init /\ [][MissingNext]_vars

(***************************************************************************)
(* Properties                                                              *)
(***************************************************************************)
Range(seq) == {seq[i] : i \in DOMAIN seq}

\* The keys of the results in a list.
KeysOf(list) == {Key(list[i].accountId, list[i].id) : i \in DOMAIN list}

\* Caller c's call went on in this step: a provider answered and no error
\* left the service.
Answered(c) ==
    /\ calls[c].pc = "await"
    /\ calls'[c] # calls[c]
    /\ calls'[c].pc \in {"await", "done"}

\* The account whose provider answers caller c next.
Asked(c) == calls[c].accts[calls[c].i]

\* C1: a provider call that throws never makes the search_emails call fail
\* (only the checks of the parameters and an empty account list do); when the
\* provider of an account answers, each of its messages is among the results
\* of the call from then on, the results the call already has stay, and the
\* returned list is all of them whenever maxResults allows it.
C1_NoRaise ==
    \A c \in Callers :
        /\ calls[c].pc = "failed" => calls[c].err \in {"validation", "noaccounts"}
        /\ (calls[c].pc = "done" /\ calls[c].maxResults >= Len(calls[c].allResults))
              => Range(calls[c].ret) = Range(calls[c].allResults)

C1_Kept ==
    \A c \in Callers :
        Answered(c) =>
            /\ Range(calls[c].allResults) \subseteq Range(calls'[c].allResults)
            /\ calls'[c].answer.ok =>
                  \A k \in DOMAIN calls'[c].answer.messages :
                      Key(Asked(c).id, calls'[c].answer.messages[k].id)
                          \in KeysOf(calls'[c].allResults)

C1_PartialFailure == [] C1_NoRaise /\ [][C1_Kept]_vars

\* The call of caller 1 is over: the provider of its second account threw,
\* the one of its first account had answered with messages, and these are
\* returned.
C1_Witness ==
    /\ calls[1].pc = "done"
    /\ Len(calls[1].accts) = 2
    /\ calls[1].accts[1].id # calls[1].accts[2].id
    /\ ~ calls[1].answer.ok
    /\ calls[1].ret # <<>>
    /\ \A i \in DOMAIN calls[1].ret : calls[1].ret[i].accountId = calls[1].accts[1].id

\* The result e is the message m.
IsMessage(e, m) ==
    /\ e.id = m.id
    /\ e.subject = m.subject
    /\ e.snippet = m.snippet
    /\ e.receivedAt = m.receivedAt
    /\ e.isRead = m.isRead
    /\ e.hasAttachments = m.hasAttachments

NoKeyTwice(list) ==
    \A i, j \in DOMAIN list :
        i # j => Key(list[i].accountId, list[i].id) # Key(list[j].accountId, list[j].id)

\* The first message of an answer with the id of its k-th message.
FirstOf(messages, k) ==
    CHOOSE f \in 1..k :
        /\ messages[f].id = messages[k].id
        /\ \A g \in 1..(f - 1) : messages[g].id # messages[k].id

\* C2: no two results of a call, collected or returned, have the same
\* (account id, message id); a result the call has is never replaced; and when
\* a provider answers, a message whose key the call does not have yet becomes
\* a result under the id of the account asked, taken from the first message
\* of the answer with that id (so the same id under another account is kept).
C2_Unique ==
    \A c \in Callers : NoKeyTwice(calls[c].allResults) /\ NoKeyTwice(calls[c].ret)

C2_First ==
    \A c \in Callers :
        (Answered(c) /\ calls'[c].answer.ok) =>
            LET messages == calls'[c].answer.messages
                had == calls[c].allResults
                has == calls'[c].allResults
            IN  /\ Range(had) \subseteq Range(has)
                /\ \A k \in DOMAIN messages :
                      Key(Asked(c).id, messages[k].id) \notin KeysOf(had) =>
                          \E e \in Range(has) :
                              /\ e.accountId = Asked(c).id
                              /\ IsMessage(e, messages[FirstOf(messages, k)])

C2_AtMostOnce == [] C2_Unique /\ [][C2_First]_vars

\* The call of caller 1 is over: its second account answered with two
\* different states of one message id, which its first account had returned
\* too; the list returned has that id once for each account, and for the
\* second account in the state that came first.
C2_Witness ==
    /\ calls[1].pc = "done"
    /\ Len(calls[1].accts) = 2
    /\ calls[1].accts[1].id # calls[1].accts[2].id
    /\ calls[1].answer.ok
    /\ Len(calls[1].answer.messages) = 2
    /\ calls[1].answer.messages[1].id = calls[1].answer.messages[2].id
    /\ calls[1].answer.messages[1] # calls[1].answer.messages[2]
    /\ Len(calls[1].ret) = 2
    /\ \E i, j \in DOMAIN calls[1].ret :
          /\ calls[1].ret[i].accountId = calls[1].accts[1].id
          /\ calls[1].ret[j].accountId = calls[1].accts[2].id
          /\ calls[1].ret[i].id = calls[1].ret[j].id
          /\ IsMessage(calls[1].ret[j], calls[1].answer.messages[1])

\* The cached rows of a message of an account, and how many there are.
RowsOf(rows, accountId, messageId) ==
    {x \in BagToSet(rows) : x.account_id = accountId /\ x.message_id = messageId}

Copies(rows, accountId, messageId) ==
    LET S == RowsOf(rows, accountId, messageId)
    IN  IF S = {} THEN 0 ELSE BagCardinality([x \in S |-> rows[x]])

\* C3: the cache never has two rows for one (account id, message id); and
\* when a provider answers a call, each message the call had not classified
\* yet, of an account still stored, has afterwards exactly one row, which
\* holds the message and the classification just made, whatever row any
\* search had cached for it before.
C3_Unique ==
    \A x \in BagToSet(cache) : Copies(cache, x.account_id, x.message_id) = 1

C3_Replaces ==
    \A c \in Callers :
        (Answered(c) /\ calls'[c].answer.ok) =>
            LET messages == calls'[c].answer.messages
            IN  \A k \in DOMAIN messages :
                    (/\ Key(Asked(c).id, messages[k].id) \notin KeysOf(calls[c].allResults)
                     /\ \E a \in accounts : a.id = Asked(c).id)
                    => LET m == messages[FirstOf(messages, k)]
                       IN  /\ RowsOf(cache', Asked(c).id, m.id)
                                = {CacheRow(Asked(c).id, m, classifyEmail(m, Asked(c), now))}
                           /\ Copies(cache', Asked(c).id, m.id) = 1

C3_OneRowPerMessage == [] C3_Unique /\ [][C3_Replaces]_vars

\* The search of caller 1 is under way and has the unread message m1 of its
\* first account among its results; the cache has one row for that message,
\* written since by the search of caller 2, which found it read.
C3_Witness ==
    /\ calls[1].pc = "await"
    /\ calls[1].i = 2
    /\ calls[2].pc = "done"
    /\ \E e \in Range(calls[1].allResults) :
          /\ ~ e.isRead
          /\ Copies(cache, e.accountId, e.id) = 1
          /\ \A x \in RowsOf(cache, e.accountId, e.id) : x.is_read = 1
          /\ \E d \in Range(calls[2].ret) :
                d.accountId = e.accountId /\ d.id = e.id /\ d.isRead

\* The tool call of this step removed an account.
Removed ==
    /\ accounts' # accounts
    /\ last'.op = "remove"
    /\ last'.err = ""

\* C4: when removeEmailAccount succeeds, the cache is left with no row of
\* the account removed and with the rows of every other account as they were.
C4_Step ==
    Removed =>
        /\ \A x \in BagToSet(cache') : x.account_id # last'.accountId
        /\ \A x \in BagToSet(cache) \cup BagToSet(cache') :
              x.account_id # last'.accountId =>
                  CopiesIn(x, cache') = CopiesIn(x, cache)

C4_Cascade == [][C4_Step]_vars

\* An account was removed whose messages a finished search holds; no row of
\* it is cached, rows of the other account are.
C4_Witness ==
    /\ last.op = "remove"
    /\ last.err = ""
    /\ \E c \in Callers :
          /\ calls[c].pc = "done"
          /\ \E e \in Range(calls[c].ret) : e.accountId = last.accountId
    /\ \A x \in BagToSet(cache) : x.account_id # last.accountId
    /\ cache # EmptyBag

\* The tool call of this step was addEmailAccount.
Added == last' # last /\ last'.op = "add"

\* An add request with everything the handler and the table ask for.
Complete(params) ==
    /\ params.accountName # ""
    /\ params.email # ""
    /\ \/ params.provider = "gmail" /\ params.refreshToken # ""
       \/ /\ params.provider = "imap"
          /\ params.host # ""
          /\ params.port # 0
          /\ params.username # ""
          /\ params.password # ""

\* C5: no two stored accounts have the same friendly name, whatever was
\* added, renamed, disabled, enabled and removed; an add request, complete
\* otherwise, under a name that a stored account has fails with the conflict
\* error and leaves the table as it was.
C5_Unique ==
    \A a, b \in accounts : a.account_name = b.account_name => a = b

C5_Conflict ==
    (/\ Added
     /\ Complete(last'.params)
     /\ \E a \in accounts : a.account_name = last'.params.accountName)
    => (last'.err = "conflict" /\ accounts' = accounts)

C5_FriendlyName == [] C5_Unique /\ [][C5_Conflict]_vars

\* Two accounts are stored, one of them added as "work" and renamed
\* "home" since, and the last request, an add under the name "home", failed
\* with the conflict.
C5_Witness ==
    /\ Cardinality(accounts) = 2
    /\ last.op = "add"
    /\ last.err = "conflict"
    /\ last.params.accountName = "home"
    /\ \E a \in accounts : a.account_name = "home" /\ a.email = "w@x"

\* C6: an add request for imap without host, port, username or password, or
\* for gmail without refresh token, fails with the validation error and
\* stores nothing; a complete request under a name not in use succeeds and
\* answers the id, not null, of an account that is stored from then on.
C6_Step ==
    Added =>
        LET params == last'.params
        IN  /\ (\/ /\ params.provider = "imap"
                   /\ (params.host = "" \/ params.port = 0
                       \/ params.username = "" \/ params.password = "")
                \/ params.provider = "gmail" /\ params.refreshToken = "")
                => (last'.err = "validation" /\ accounts' = accounts)
            /\ (/\ Complete(params)
                /\ \A a \in accounts : a.account_name # params.accountName)
                => /\ last'.err = ""
                   /\ last'.accountId # 0
                   /\ \A a \in accounts : a.id # last'.accountId
                   /\ \E a \in accounts' :
                         /\ a.id = last'.accountId
                         /\ a.account_name = params.accountName
                         /\ a.provider = params.provider
                   /\ accounts \subseteq accounts'

C6_Validation == [][C6_Step]_vars

\* An imap account is stored and the last request, for imap without host,
\* failed with the validation error.
C6_Witness ==
    /\ last.op = "add"
    /\ last.err = "validation"
    /\ last.params.provider = "imap"
    /\ last.params.host = ""
    /\ last.params.port # 0 /\ last.params.username # "" /\ last.params.password # ""
    /\ \E a \in accounts : a.provider = "imap"

\* C7: whatever classifyEmail returns, both scores are between 0 and 1 (100
\* hundredths), isUrgent is true exactly when the urgencyScore returned is at
\* least 0.3 and isImportant exactly when the importanceScore returned is.
C7_ScoresAndFlags ==
    \A r \in probe.results :
        /\ 0 <= r.urgencyScore /\ r.urgencyScore <= 100
        /\ 0 <= r.importanceScore /\ r.importanceScore <= 100
        /\ r.isUrgent <=> r.urgencyScore >= 30
        /\ r.isImportant <=> r.importanceScore >= 30

\* The message was classified now, its urgency adds up to more than 1 before
\* the return statement, and its importance to less than 0.3.
C7_Witness ==
    /\ probe.results # {}
    /\ classifyEmail(probe.message, probe.account, now) \in probe.results
    /\ accumulate(probe.message, probe.account, now).urgencyScore > 100
    /\ accumulate(probe.message, probe.account, now).importanceScore < 30

\* C8: all the calls of classifyEmail on one message with one account
\* configuration return the same scores, flags and reasons, whenever made.
C8_Deterministic == Cardinality(probe.results) <= 1

\* The rank score of a result: urgency counts twice.
RankScore(e) == e.urgencyScore * 2 + e.importanceScore

\* C9: the list a call returns is made of results the call collected, in
\* non-increasing order of urgencyScore * 2 + importanceScore, and no
\* collected result left out of it has a higher rank score than a returned one.
C9_Ranked ==
    \A c \in Callers :
        calls[c].pc = "done" =>
            LET ret == calls[c].ret
                all == calls[c].allResults
            IN  /\ Range(ret) \subseteq Range(all)
                /\ \A i, j \in DOMAIN ret :
                      i < j => RankScore(ret[i]) >= RankScore(ret[j])
                /\ \A e \in Range(all) \ Range(ret) :
                      \A r \in Range(ret) : RankScore(e) <= RankScore(r)

\* Three results were collected and two returned; the first returned has the
\* higher urgency, the second the higher importance and the higher sum of
\* the two scores.
C9_Witness ==
    /\ calls[1].pc = "done"
    /\ calls[1].maxResults = 2
    /\ Len(calls[1].allResults) = 3
    /\ Len(calls[1].ret) = 2
    /\ calls[1].ret[1].urgencyScore > calls[1].ret[2].urgencyScore
    /\ calls[1].ret[1].importanceScore < calls[1].ret[2].importanceScore
    /\ calls[1].ret[1].urgencyScore + calls[1].ret[1].importanceScore
         < calls[1].ret[2].urgencyScore + calls[1].ret[2].importanceScore

\* C10: the list a call returns has at most maxResults results, for every
\* maxResults the handler lets through (read in favour of the code: at most
\* no result when maxResults is negative).
C10_Bounded ==
    \A c \in Callers :
        calls[c].pc = "done" =>
            Len(calls[c].ret) <= (IF calls[c].maxResults > 0
                                  THEN calls[c].maxResults ELSE 0)

\* The tool call of caller c asks for more than 500 results.
Over500(call) ==
    /\ call.op \in {"search", "urgent"}
    /\ call.params.maxResults # None
    /\ call.params.maxResults[1] > 500

\* Caller c's call started in this step.
Started(c) == calls[c].pc = "idle" /\ calls'[c].pc # "idle"

\* C11: a search_emails or get_urgent_emails call that asks for more than 500
\* results has failed with the validation error, with no account resolved and
\* no provider asked; the step in which it was made left the account table
\* and the cache as they were.
C11_Rejected ==
    \A c \in Callers :
        Over500(calls[c]) =>
            /\ calls[c].pc = "failed"
            /\ calls[c].err = "validation"
            /\ calls[c].accts = <<>>
            /\ calls[c].i = 0
            /\ calls[c].q = 0

C11_Untouched ==
    \A c \in Callers :
        (Started(c) /\ Over500(calls'[c])) =>
            /\ accounts' = accounts
            /\ cache' = cache

C11_MaxResultsLimit == [] C11_Rejected /\ [][C11_Untouched]_vars

\* A get_urgent_emails call for 501 results has failed with the validation
\* error while an active account is stored and the cache holds rows of it.
C11_Witness ==
    /\ calls[1].op = "urgent"
    /\ calls[1].params.maxResults = Some(501)
    /\ calls[1].pc = "failed"
    /\ calls[1].err = "validation"
    /\ \E a \in accounts : a.is_active = 1 /\ \E x \in BagToSet(cache) : x.account_id = a.id

\* The ids of the accounts a call searches, in the order it searches them.
IdsOf(accts) == [k \in DOMAIN accts |-> accts[k].id]

Stored(id) == \E a \in accounts : a.id = id

\* C12: a search_emails call that passes the checks of its parameters
\* searches, when it lists account ids, the listed ids that are stored, active
\* or not, in the order listed, and otherwise the active accounts, each once;
\* the accounts it holds are the stored ones; when there is none to search
\* it fails with the no-accounts error and no provider is asked.
C12_Step ==
    \A c \in Callers :
        (/\ Started(c)
         /\ calls'[c].op = "search"
         /\ calls'[c].err # "validation") =>
            LET call == calls'[c]
                listed == call.params.accounts
                wanted == IF listed # None
                          THEN SelectSeq(listed[1], Stored)
                          ELSE <<>>
                active == {a.id : a \in {r \in accounts : r.is_active = 1}}
            IN  /\ call.pc \in {"await", "failed"}
                /\ call.pc = "failed" =>
                      /\ call.err = "noaccounts"
                      /\ call.accts = <<>> /\ call.i = 0
                      /\ IF listed # None THEN wanted = <<>> ELSE active = {}
                /\ call.pc = "await" =>
                      /\ call.i = 1
                      /\ call.accts # <<>>
                      /\ IF listed # None
                         THEN IdsOf(call.accts) = wanted
                         ELSE /\ Range(IdsOf(call.accts)) = active
                              /\ Len(call.accts) = Cardinality(active)
                      /\ \A k \in DOMAIN call.accts :
                            \E r \in accounts :
                               /\ r.id = call.accts[k].id
                               /\ r.account_name = call.accts[k].accountName
                               /\ r.provider = call.accts[k].provider
                               /\ (r.is_active = 1) = call.accts[k].isActive

C12_Resolution == [][C12_Step]_vars

\* A search by id list is under way: two ids were listed, one of them is not
\* stored, and the other is the one account it searches, which is disabled.
C12_Witness ==
    /\ calls[1].op = "search"
    /\ calls[1].pc = "await"
    /\ calls[1].params.accounts # None
    /\ Len(calls[1].params.accounts[1]) = 2
    /\ Len(calls[1].accts) = 1
    /\ ~ calls[1].accts[1].isActive
    /\ \E k \in 1..2 : ~ Stored(calls[1].params.accounts[1][k])

\* C13: when a fan-out is over, every account it searched that is still
\* stored has a last-sync time, with a last-sync error exactly when its
\* provider call failed.
C13_SyncRecorded ==
    \A c \in Callers :
        calls[c].pc = "done" =>
            \A k \in DOMAIN calls[c].accts :
                \A r \in accounts :
                    r.id = calls[c].accts[k].id =>
                        /\ r.last_sync_at # None
                        /\ (r.sync_error # "") <=> (r.id \in calls[c].failed)

\* C14: a fan-out in which the provider call of every account failed does not
\* end with a successful answer.
C14_AllUnreachable ==
    \A c \in Callers :
        ~ (/\ calls[c].pc = "done"
           /\ calls[c].accts # <<>>
           /\ Range(IdsOf(calls[c].accts)) \subseteq calls[c].failed)

\* C15: while a fan-out over two or more different accounts awaits its
\* providers, the provider call of every account not answered yet is in flight.
C15_Concurrent ==
    \A c \in Callers :
        (/\ calls[c].pc = "await"
         /\ \A j, k \in DOMAIN calls[c].accts :
               j # k => calls[c].accts[j].id # calls[c].accts[k].id
         /\ Len(calls[c].accts) >= 2) =>
            inFlight(calls[c]) = calls[c].i .. Len(calls[c].accts)

\* C16: every search_emails and get_urgent_emails call that has started its
\* fan-out returns to its caller in the end, with a result or an error.
C16_Returns ==
    \A c \in Callers :
        (calls[c].op \in {"search", "urgent"} /\ calls[c].pc \in {"await", "hung"})
            ~> (calls[c].pc \in {"done", "failed"})

\* C17: two finished searches of the same accounts, with the same maxResults
\* and the same answer of each account's provider, have returned the same
\* list, in whatever order each of them listed the accounts.
C17_OrderIndependent ==
    \A c, d \in Callers :
        (/\ calls[c].op = "search" /\ calls[c].pc = "done"
         /\ calls[d].op = "search" /\ calls[d].pc = "done"
         /\ calls[c].maxResults = calls[d].maxResults
         /\ Range(calls[c].accts) = Range(calls[d].accts))
        => calls[c].ret = calls[d].ret

\* What a search collects from an answer when every cache write succeeds:
\* the loop over the messages, run against a table that has the account.
AllWritten(call, account, messages, t) ==
    classifyMessages([allResults |-> call.allResults, seen |-> call.seen,
                      rows |-> EmptyBag, raised |-> FALSE],
                     account, messages, 1, t, {[id |-> account.id]}).allResults

\* C18: when a provider answers a search with messages of an account that is
\* no longer stored, so that the cache write of each of them fails, the search
\* does not fail and nothing is written; every message of the answer that the
\* search had not seen is among its results, classified; and the results of
\* the search are those it would have had every write succeeded.
C18_Step ==
    \A c \in Callers :
        (/\ calls[c].op = "search"
         /\ calls[c].pc = "await"
         /\ calls'[c] # calls[c]
         /\ ~ Stored(Asked(c).id)) =>
            /\ calls'[c].pc \in {"await", "done"}
            /\ cache' = cache
            /\ calls'[c].answer.ok =>
                  LET messages == calls'[c].answer.messages
                      full == AllWritten(calls[c], Asked(c), messages, now)
                  IN  /\ \A k \in DOMAIN messages :
                            Key(Asked(c).id, messages[k].id) \notin calls[c].seen =>
                               \E e \in Range(calls'[c].allResults) :
                                  LET m == messages[FirstOf(messages, k)]
                                      cl == classifyEmail(m, Asked(c), now)
                                  IN  /\ e.accountId = Asked(c).id
                                      /\ IsMessage(e, m)
                                      /\ e.urgencyScore = cl.urgencyScore
                                      /\ e.importanceScore = cl.importanceScore
                                      /\ e.importanceReason = cl.reasons
                      /\ calls'[c].pc = "await" => calls'[c].allResults = full
                      /\ calls'[c].pc = "done" =>
                            /\ calls'[c].allResults = sortResults(full)
                            /\ calls'[c].ret = slice(sortResults(full), calls[c].maxResults)

C18_CacheFailure == [][C18_Step]_vars

\* A finished search of two accounts returned two messages of its first
\* account, which is not stored any more and has no row in the cache, and
\* messages of its second account, which is stored and has rows.
C18_Witness ==
    /\ calls[1].op = "search"
    /\ calls[1].pc = "done"
    /\ Len(calls[1].accts) = 2
    /\ ~ Stored(calls[1].accts[1].id)
    /\ Stored(calls[1].accts[2].id)
    /\ Cardinality({e \in Range(calls[1].ret) : e.accountId = calls[1].accts[1].id}) = 2
    /\ \A x \in BagToSet(cache) : x.account_id # calls[1].accts[1].id
    /\ \E e \in Range(calls[1].ret) :
          /\ e.accountId = calls[1].accts[2].id
          /\ \E x \in BagToSet(cache) :
                x.account_id = e.accountId /\ x.message_id = e.id

\* The step is a call of updateAccount that returned the account.
Updated == last' # last /\ last'.op = "update" /\ last'.err = ""

\* C19: when updateAccount succeeds, each field of the account that the
\* updates provide has the provided value, every other field of the account
\* has the value it had, and the other accounts are as they were.
C19_Step ==
    Updated =>
        LET u == last'.updates
        IN  \E old \in accounts, new \in accounts' :
              /\ old.id = last'.accountId /\ new.id = old.id
              /\ accounts' \ {new} = accounts \ {old}
              /\ new.account_name = IF u.accountName # "" THEN u.accountName
                                    ELSE old.account_name
              /\ new.email = IF u.email # "" THEN u.email ELSE old.email
              /\ new.provider = IF u.provider # "" THEN u.provider ELSE old.provider
              /\ decryptProviderConfig(new.provider_config)
                    = IF u.providerConfig # None THEN u.providerConfig[1]
                      ELSE decryptProviderConfig(old.provider_config)
              /\ new.default_mailbox = IF u.defaultMailbox # "" THEN u.defaultMailbox
                                       ELSE old.default_mailbox
              /\ new.include_sent = IF u.includeSent # None
                                    THEN (IF u.includeSent[1] THEN 1 ELSE 0)
                                    ELSE old.include_sent
              /\ new.include_archived = IF u.includeArchived # None
                                        THEN (IF u.includeArchived[1] THEN 1 ELSE 0)
                                        ELSE old.include_archived
              /\ new.auto_detect_priority
                    = IF u.autoDetectPriority # None
                      THEN (IF u.autoDetectPriority[1] THEN 1 ELSE 0)
                      ELSE old.auto_detect_priority
              /\ JSONparse(new.custom_urgent_keywords)
                    = IF u.customUrgentKeywords # None THEN u.customUrgentKeywords[1]
                      ELSE JSONparse(old.custom_urgent_keywords)
              /\ JSONparse(new.custom_important_keywords)
                    = IF u.customImportantKeywords # None
                      THEN u.customImportantKeywords[1]
                      ELSE JSONparse(old.custom_important_keywords)
              /\ new.is_active = old.is_active
              /\ new.last_sync_at = old.last_sync_at
              /\ new.sync_error = old.sync_error
              /\ new.created_at = old.created_at

C19_OnlyProvided == [][C19_Step]_vars

\* The step is a call of disableEmailAccount or enableEmailAccount that
\* succeeded.
Switched ==
    /\ last' # last
    /\ last'.op \in {"disable", "enable"}
    /\ last'.err = ""

\* C20: when disableEmailAccount or enableEmailAccount succeeds, the account
\* is inactive after disable and active after enable, whatever it was before;
\* every other column of its row, every other account and the cache are as
\* they were.
C20_Step ==
    Switched =>
        /\ cache' = cache
        /\ \E old \in accounts, new \in accounts' :
              /\ old.id = last'.accountId /\ new.id = old.id
              /\ accounts' \ {new} = accounts \ {old}
              /\ new.is_active = IF last'.op = "disable" THEN 0 ELSE 1
              /\ new.account_name = old.account_name
              /\ new.email = old.email
              /\ new.provider = old.provider
              /\ new.provider_config = old.provider_config
              /\ new.default_mailbox = old.default_mailbox
              /\ new.include_sent = old.include_sent
              /\ new.include_archived = old.include_archived
              /\ new.auto_detect_priority = old.auto_detect_priority
              /\ new.custom_urgent_keywords = old.custom_urgent_keywords
              /\ new.custom_important_keywords = old.custom_important_keywords
              /\ new.last_sync_at = old.last_sync_at
              /\ new.sync_error = old.sync_error
              /\ new.created_at = old.created_at

Deleted ==
    /\ last' # last
    /\ last'.op \in {"delete", "remove"}
    /\ last'.accountId # 0

\* C21: deleteAccount returns true exactly when an account with the id was
\* stored (and removeEmailAccount succeeds exactly then); afterwards
\* getAccountById finds nothing under the id, no listing has the account, a
\* second deleteAccount of the id would return false, and every other account
\* is stored as it was.
C21_Step ==
    Deleted =>
        LET id == last'.accountId
            existed == \E r \in accounts : r.id = id
        IN  /\ last'.op = "delete" => (last'.returned <=> existed)
            /\ last'.op = "remove" => (last'.err = "" <=> existed)
            /\ last'.op = "remove" /\ ~ existed => last'.err = "notfound"
            /\ getAccountById(accounts', id) = None
            /\ \A l \in listAllAccounts(accounts') \cup listActiveAccounts(accounts') :
                  \A k \in DOMAIN l : l[k].id # id
            /\ deleteAccount(accounts', cache', id).changes = 0
            /\ \A r \in accounts : r.id # id => r \in accounts'
            /\ accounts' \subseteq accounts

C21_Delete == [][C21_Step]_vars

\* deleteAccount was called a second time for an account created and deleted
\* before, and returned false; another account, disabled, is still stored.
C21_Witness ==
    /\ last.op = "delete"
    /\ ~ last.returned
    /\ last.accountId < nextId
    /\ \E a \in accounts : a.id # last.accountId /\ a.is_active = 0

\* The step is a call of listEmailAccounts.
Listed == last' # last /\ last'.op = "list"

\* C22: listEmailAccounts answers every stored account, or with
\* includeInactive false every active one, each once, the one created last
\* first (an account created later has the higher id).
C22_Step ==
    Listed =>
        LET l == last'.accounts
            rows == IF last'.includeInactive THEN accounts ELSE activeRows(accounts)
        IN  /\ {l[k].id : k \in DOMAIN l} = {r.id : r \in rows}
            /\ Len(l) = Cardinality(rows)
            /\ last'.count = Len(l)
            /\ \A i, j \in DOMAIN l : i < j => l[i].id > l[j].id

C22_CreationOrder == [][C22_Step]_vars

\* C22, without the order: every stored (active) account is listed once.
C22_Members ==
    [][Listed =>
        LET l == last'.accounts
            rows == IF last'.includeInactive THEN accounts ELSE activeRows(accounts)
        IN  /\ {l[k].id : k \in DOMAIN l} = {r.id : r \in rows}
            /\ Len(l) = Cardinality(rows)
            /\ \A i, j \in DOMAIN l : i < j => l[i].createdAt >= l[j].createdAt]_vars

\* A credential blob with other secrets in it.
OtherSecrets(config) ==
    [f \in DOMAIN config |->
        IF f \in {"refreshToken", "accessToken", "password"} THEN "other"
        ELSE config[f]]

\* The store that differs from tbl only in the stored credentials.
OtherCredentials(tbl) ==
    {[r EXCEPT !.provider_config =
         encryptProviderConfig(OtherSecrets(decryptProviderConfig(@)))] : r \in tbl}

\* What the read of the record call can return from the store tbl.
ReadsOf(tbl, call) ==
    CASE call.op = "getAccountById" -> {getAccountById(tbl, call.id)}
      [] call.op = "getAccountByName" -> {getAccountByName(tbl, call.accountName)}
      [] call.op = "getAccountByEmail" -> getAccountByEmail(tbl, call.email)
      [] call.op = "listActiveAccounts" -> listActiveAccounts(tbl)
      [] call.op = "listAllAccounts" -> listAllAccounts(tbl)
      [] call.op = "list" ->
            {[k \in DOMAIN l |-> listItem(l[k])] :
                l \in (IF call.includeInactive THEN listAllAccounts(tbl)
                       ELSE listActiveAccounts(tbl))}

ReadOps ==
    {"getAccountById", "getAccountByName", "getAccountByEmail",
     "listActiveAccounts", "listAllAccounts", "list"}

\* The step is a read of the registry, by a service method or the list tool.
WasRead == last' # last /\ last'.op \in ReadOps

\* C23: what a read of the registry returns does not depend on the stored
\* credentials: the store that differs only in the refresh tokens, access
\* tokens and passwords returns the same to the same read.
C23_Step ==
    WasRead =>
        (IF last'.op = "list" THEN last'.accounts ELSE last'.out)
            \in ReadsOf(OtherCredentials(accounts), last')

C23_Confidential == [][C23_Step]_vars

\* C23, for the list tool alone.
C23_ListTool == [][last'.op = "list" => C23_Step]_vars

\* The account of a call with the id.
AccountOf(call, id) ==
    call.accts[CHOOSE k \in DOMAIN call.accts : call.accts[k].id = id]

\* The list `returned` is the top `limit` of the list `bucket` by the score
\* `field`: it is made of entries of the bucket, as many as the limit allows,
\* none of those left out has a higher score than one returned, and it is in
\* non-increasing order of the score, with no key twice.
TopOf(returned, bucket, field, limit) ==
    /\ Range(returned) \subseteq Range(bucket)
    /\ Len(returned) = Min(IF limit > 0 THEN limit ELSE 0, Len(bucket))
    /\ \A e \in Range(bucket) \ Range(returned) :
          \A r \in Range(returned) : e[field] <= r[field]
    /\ \A i, j \in DOMAIN returned : i < j => returned[i][field] >= returned[j][field]
    /\ NoKeyTwice(returned)

\* The bucket holds exactly the fetched messages that classifyEmail flags
\* with `flag`, each once, with the score `field` classifyEmail gives.
BucketOf(bucket, call, flag, field, t) ==
    /\ KeysOf(bucket)
         = {Key(f[1], f[2].id) :
               f \in {g \in call.fetched :
                        classifyEmail(g[2], AccountOf(call, g[1]), t)[flag]}}
    /\ NoKeyTwice(bucket)
    /\ \A e \in Range(bucket) :
          \E f \in call.fetched :
             /\ f[1] = e.accountId
             /\ IsMessage(e, f[2])
             /\ e[field] = classifyEmail(f[2], AccountOf(call, f[1]), t)[field]

\* What C24 says of a get_urgent_emails call that is over.
Bucketed(call, t) ==
    /\ BucketOf(call.urgentEmails, call, "isUrgent", "urgencyScore", t)
    /\ BucketOf(call.importantEmails, call, "isImportant", "importanceScore", t)
    /\ TopOf(call.urgent, call.urgentEmails, "urgencyScore", call.maxResults)
    /\ TopOf(call.important, call.importantEmails, "importanceScore", call.maxResults)

\* C24: when getUrgentAndImportantEmails returns, the urgent list is the top
\* limit by urgencyScore of the fetched messages with isUrgent, the important
\* list the top limit by importanceScore of those with isImportant, each in
\* non-increasing order of its score, of at most limit entries and with no
\* (account id, message id) twice; and a call made when no account is active
\* has failed with the no-accounts error.
C24_Buckets ==
    \A c \in Callers :
        /\ (calls[c].op = "urgent" /\ calls[c].pc = "done") => Bucketed(calls[c], now)
        /\ (calls[c].op = "urgent" /\ calls[c].pc = "failed"
             /\ calls[c].err # "validation") =>
              (calls[c].err = "noaccounts" /\ calls[c].accts = <<>>)

\* C24, for the limits that are not negative.
C24_NotNegative ==
    \A c \in Callers :
        (calls[c].op = "urgent" /\ calls[c].pc = "done" /\ calls[c].maxResults >= 0)
            => Bucketed(calls[c], now)

\* A call for one result per list is over: three messages were fetched, one
\* of them in neither bucket and one in both, and each list has the one
\* message of its bucket with the highest score, which are two messages.
C24_Reached ==
    /\ calls[1].op = "urgent" /\ calls[1].pc = "done"
    /\ calls[1].maxResults = 1
    /\ Cardinality(calls[1].fetched) >= 3
    /\ Cardinality(calls[1].fetched)
         > Cardinality(KeysOf(calls[1].urgentEmails) \cup KeysOf(calls[1].importantEmails))
    /\ KeysOf(calls[1].urgentEmails) \cap KeysOf(calls[1].importantEmails) # {}
    /\ Len(calls[1].urgentEmails) = 2
    /\ Len(calls[1].urgent) = 1 /\ Len(calls[1].important) = 1
    /\ calls[1].urgent[1].id # calls[1].important[1].id

\* C25: a get_urgent_emails call with an account id list asks the providers
\* of listed accounts only, and every email it returns is of a listed account.
C25_ListedOnly ==
    \A c \in Callers :
        (/\ calls[c].op = "urgent"
         /\ calls[c].pc \in {"await", "done"}
         /\ calls[c].params.accounts # None) =>
            LET listed == Range(calls[c].params.accounts[1])
            IN  /\ \A k \in DOMAIN calls[c].accts : calls[c].accts[k].id \in listed
                /\ \A e \in Range(calls[c].urgent) \cup Range(calls[c].important) :
                      e.accountId \in listed

\* C25, without a list: the accounts asked are the active ones, each once.
C25_AllActive ==
    [][\A c \in Callers :
          (Started(c) /\ calls'[c].op = "urgent" /\ calls'[c].pc = "await") =>
              /\ {calls'[c].accts[k].id : k \in DOMAIN calls'[c].accts}
                    = {r.id : r \in activeRows(accounts)}
              /\ Len(calls'[c].accts) = Cardinality(activeRows(accounts))]_vars

\* The number a score text of the handler stands for, in hundredths.
ScoreOf(text) == text.int * 100 + text.dec

\* The result is below a floor that was given.
BelowFloor(e, floors) ==
    \/ floors.minUrgencyScore # 0 /\ e.urgencyScore < floors.minUrgencyScore
    \/ floors.minImportanceScore # 0 /\ e.importanceScore < floors.minImportanceScore

\* The results of a list that are not below a floor, in the order of the list.
RECURSIVE Kept(_, _)
Kept(list, floors) ==
    IF list = <<>> THEN <<>>
    ELSE IF BelowFloor(list[Len(list)], floors)
    THEN Kept(SubSeq(list, 1, Len(list) - 1), floors)
    ELSE Append(Kept(SubSeq(list, 1, Len(list) - 1), floors), list[Len(list)])

Racing ==
    /\ \A c \in Callers : calls[c].op \in {"addAccount", "updateAccount"}
    /\ calls[1].params.accountName = calls[2].params.accountName

\* C27: of two calls that were in progress at the same time, both addAccount
\* with one friendly name that was free, or one addAccount and one
\* updateAccount renaming a stored account to that name, exactly one
\* succeeded when both are over, in every interleaving of their statements;
\* the other failed on the uniqueness of the name (addAccount with "already
\* exists", updateAccount with the UNIQUE constraint error of the engine);
\* exactly one account of that name is stored and it is the one the call that
\* succeeded wrote and was given back.  At no moment do two stored accounts
\* have one name.
C27_ExactlyOne ==
    /\ \A a, b \in accounts : a.account_name = b.account_name => a = b
    /\ (Racing /\ \A c \in Callers : calls[c].pc = "done") =>
          LET n == calls[1].params.accountName
              named == {a \in accounts : a.account_name = n}
          IN  /\ Cardinality(named) = 1
              /\ \E c \in Callers :
                    LET d == 3 - c
                    IN  /\ calls[c].err = ""
                        /\ calls[d].err =
                             (IF calls[d].op = "addAccount"
                              THEN "conflict" ELSE "constraint")
                        /\ calls[d].out = None
                        /\ named = {a \in accounts : a.id = calls[c].accountId}
                        /\ calls[c].out = getAccountById(accounts, calls[c].accountId)
                        /\ calls[c].op = "addAccount" =>
                              /\ calls[c].out[1].provider = calls[c].params.provider
                              /\ calls[c].out[1].email = calls[c].params.email

\* An addAccount and a renaming updateAccount raced: the account was
\* inserted, and the UPDATE, which came after it, failed.
C27_Witness ==
    /\ Racing /\ \A c \in Callers : calls[c].pc = "done"
    /\ calls[1].op = "addAccount" /\ calls[1].err = ""
    /\ calls[2].op = "updateAccount" /\ calls[2].err = "constraint"
    /\ calls[2].account # None
    /\ Cardinality(accounts) = 2

\* Two addAccount calls raced and the second caller's INSERT came first.
C27_AddsReached ==
    /\ Racing /\ \A c \in Callers : calls[c].pc = "done"
    /\ calls[1].op = "addAccount" /\ calls[1].err = "conflict"
    /\ calls[2].op = "addAccount" /\ calls[2].err = ""

\* The number of places of a text where a keyword stands as a whole word (or
\* as whole words), whatever the case of the letters.
Occurrences(text, keyword) ==
    LET k == Atoms(keyword)
    IN  Cardinality({i \in 1..Len(text) :
                        /\ i + Len(k) - 1 <= Len(text)
                        /\ \A j \in 1..Len(k) : Lower(text[i + j - 1]) = Lower(k[j])})

\* The keywords of a list that occur in a text, in the order of the list.
RECURSIVE Occurring(_, _)
Occurring(text, keywords) ==
    IF keywords = <<>> THEN <<>>
    ELSE LET rest == Occurring(text, SubSeq(keywords, 1, Len(keywords) - 1))
             k == keywords[Len(keywords)]
         IN  IF Occurrences(text, k) > 0 THEN Append(rest, k) ELSE rest

\* The keywords of the reasons of one kind, in the order of the reasons.
RECURSIVE KeywordsOf(_, _)
KeywordsOf(reasons, what) ==
    IF reasons = <<>> THEN <<>>
    ELSE LET rest == KeywordsOf(SubSeq(reasons, 1, Len(reasons) - 1), what)
             r == reasons[Len(reasons)]
         IN  IF r.reason = what THEN Append(rest, r.keyword) ELSE rest

\* The subject and the snippet of a message as classifyEmail joins them.
TextOf(message) == message.subject \o <<" ">> \o message.snippet

\* C28: every result of classify has one urgent-keyword reason for each
\* keyword of the account's custom urgent list that occurs in the message,
\* however often, and no other, when that list is not empty, and one for each
\* built-in urgent keyword that occurs when it is empty; likewise for the
\* important keywords; a keyword that occurs adds at least 0.15 to the
\* score.  For customUrgentKeywords ["asap"] and the subject "Need this ASAP
\* please" the urgency is at least 0.15 and the one urgent-keyword reason is
\* the one for "asap".
C28_KeywordOverride ==
    \A r \in probe.results :
        LET text == TextOf(probe.message)
            custom == probe.account.customUrgentKeywords
            customImportant == probe.account.customImportantKeywords
            urgent == KeywordsOf(r.reasons, "Contains urgent keyword")
            important == KeywordsOf(r.reasons, "Contains important keyword")
        IN  /\ custom # <<>> => urgent = Occurring(text, custom)
            /\ custom = <<>> => urgent = Occurring(text, DEFAULT_URGENT_KEYWORDS)
            /\ customImportant # <<>> => important = Occurring(text, customImportant)
            /\ customImportant = <<>> =>
                  important = Occurring(text, DEFAULT_IMPORTANT_KEYWORDS)
            /\ urgent # <<>> => r.urgencyScore >= KeywordWeight
            /\ important # <<>> => r.importanceScore >= KeywordWeight
            /\ (custom = <<"asap">> /\ probe.message.subject = NeedThisASAP) =>
                  /\ r.urgencyScore >= KeywordWeight
                  /\ urgent = <<"asap">>

\* The scenario: customUrgentKeywords ["asap"], subject "Need this ASAP
\* please", read and old: urgency 0.15 and the one urgent reason.
C28_Witness ==
    /\ probe.account.customUrgentKeywords = <<"asap">>
    /\ probe.message.subject = NeedThisASAP
    /\ probe.message.snippet = <<>>
    /\ probe.message.isRead /\ probe.message.receivedAt = -48
    /\ \E r \in probe.results :
          /\ r.urgencyScore = KeywordWeight
          /\ KeywordsOf(r.reasons, "Contains urgent keyword") = <<"asap">>

\* A keyword of the account occurs three times and a built-in keyword once:
\* there is one urgent reason, for the keyword of the account.
C28_ManyReached ==
    /\ probe.account.customUrgentKeywords = <<"asap">>
    /\ Occurrences(TextOf(probe.message), "asap") = 3
    /\ Occurrences(TextOf(probe.message), "urgent") = 1
    /\ \E r \in probe.results :
          KeywordsOf(r.reasons, "Contains urgent keyword") = <<"asap">>

\* The sum, over the keywords of a list, of min(0.15 * whole-word
\* occurrences, 0.5).
RECURSIVE KeywordSum(_, _)
KeywordSum(text, keywords) ==
    IF keywords = <<>> THEN 0
    ELSE KeywordSum(text, SubSeq(keywords, 1, Len(keywords) - 1))
         + Min(KeywordWeight * Occurrences(text, keywords[Len(keywords)]), KeywordCap)

\* The list of keywords in use: that of the account, or the built-in one.
InUse(custom, defaults) == IF custom = <<>> THEN defaults ELSE custom

\* The account is a Gmail account and the message has the label IMPORTANT or
\* STARRED.
HasLabel(message, account) ==
    /\ account.provider = "gmail"
    /\ message.labels \cap {"IMPORTANT", "STARRED"} # {}

\* The two scores of the formula for a message classified at time t.
UrgencyFormula(message, account, t) ==
    Min(MaxScore,
        KeywordSum(TextOf(message),
                   InUse(account.customUrgentKeywords, DEFAULT_URGENT_KEYWORDS))
        + (IF message.isRead THEN 0 ELSE UnreadUrgency)
        + (IF HasLabel(message, account) THEN LabelBonus ELSE 0)
        + (IF t - message.receivedAt < HoursPerDay THEN RecentUrgency ELSE 0))

ImportanceFormula(message, account) ==
    Min(MaxScore,
        KeywordSum(TextOf(message),
                   InUse(account.customImportantKeywords, DEFAULT_IMPORTANT_KEYWORDS))
        + (IF message.isRead THEN 0 ELSE UnreadImportance)
        + (IF message.hasAttachments THEN AttachmentImportance ELSE 0)
        + (IF HasLabel(message, account) THEN LabelBonus ELSE 0))

\* The scores of the results a step adds are those of the formula.
ScoresAsFormula ==
    \A r \in probe'.results \ probe.results :
        /\ r.urgencyScore = UrgencyFormula(probe.message, probe.account, now)
        /\ r.importanceScore = ImportanceFormula(probe.message, probe.account)

\* C29: for every message and every account configuration the urgencyScore
\* classify returns is min(1, the sum over the urgent keywords in use of
\* min(0.15 * whole-word occurrences, 0.5) + 0.2 if unread + 0.3 for a Gmail
\* account and a label IMPORTANT or STARRED + 0.15 if received within the
\* last 24 hours), and the importanceScore is min(1, the same sum over the
\* important keywords + 0.1 if unread + 0.25 with attachments + 0.3 for the
\* label); a keyword inside a longer word adds nothing.
C29_Formula == [][ScoresAsFormula]_vars

\* The formula holds for every account whose keywords are made of letters,
\* spaces and hyphens.
C29_PlainKeywords ==
    [][probe.account.customUrgentKeywords # <<"[urgent]">> => ScoresAsFormula]_vars

\* A message with four occurrences of one urgent keyword, two other urgent
\* keywords, unread, labelled and recent has been classified for a Gmail
\* account: the sum is over 1 and the score is 1.
C29_Reached ==
    /\ probe.message.subject = U4
    /\ probe.message.snippet = <<"asap", " ", "emergency">>
    /\ ~ probe.message.isRead /\ probe.message.labels = {"STARRED"}
    /\ probe.account.provider = "gmail"
    /\ probe.account.customUrgentKeywords = <<>>
    /\ \E r \in probe.results : r.urgencyScore = MaxScore

\* One keyword reason for each keyword of a list, in the order of the list.
KeywordReasons(what, keywords) ==
    [k \in DOMAIN keywords |-> [reason |-> what, keyword |-> keywords[k]]]

\* The one reason of a signal that holds, no reason otherwise.
ReasonIf(signal, text) ==
    IF signal THEN <<[reason |-> text, keyword |-> ""]>> ELSE <<>>

\* C30: the reason list of every result classify returns is, in this order:
\* one reason for each urgent keyword in use that occurs in the message, in
\* the order of the urgent list; one for each important keyword that occurs,
\* in the order of the important list; the unread reason if the message is
\* unread; the attachments reason if it has attachments; the label reason if
\* the account is a Gmail account and the message is labelled IMPORTANT or
\* STARRED; the 24-hours reason if it was received less than 24 hours before
\* the call; and nothing else.
C30_Step ==
    \A r \in probe'.results \ probe.results :
        LET message == probe.message
            account == probe.account
            text == TextOf(message)
        IN  r.reasons =
              KeywordReasons("Contains urgent keyword",
                  Occurring(text, InUse(account.customUrgentKeywords,
                                        DEFAULT_URGENT_KEYWORDS)))
              \o KeywordReasons("Contains important keyword",
                     Occurring(text, InUse(account.customImportantKeywords,
                                           DEFAULT_IMPORTANT_KEYWORDS)))
              \o ReasonIf(~ message.isRead, "Email is unread")
              \o ReasonIf(message.hasAttachments, "Email has attachments")
              \o ReasonIf(HasLabel(message, account),
                          "Marked as important/starred in Gmail")
              \o ReasonIf(now - message.receivedAt < HoursPerDay,
                          "Received within last 24 hours")

C30_ReasonOrder == [][C30_Step]_vars

\* A result has three urgent-keyword reasons, three important-keyword
\* reasons and the four other reasons, ten in all, in the order of the steps.
C30_Witness ==
    \E r \in probe.results :
        /\ Len(r.reasons) = 10
        /\ KeywordsOf(r.reasons, "Contains urgent keyword")
             = <<"urgent", "deadline", "important">>
        /\ KeywordsOf(r.reasons, "Contains important keyword")
             = <<"meeting", "review", "important">>
        /\ r.reasons[3].reason = "Contains urgent keyword"
        /\ r.reasons[4].reason = "Contains important keyword"
        /\ r.reasons[7].reason = "Email is unread"
        /\ r.reasons[8].reason = "Email has attachments"
        /\ r.reasons[9].reason = "Marked as important/starred in Gmail"
        /\ r.reasons[10].reason = "Received within last 24 hours"

\* The messages of a list whose id no earlier message of the list has.
RECURSIVE FirstOccurrences(_)
FirstOccurrences(list) ==
    IF list = <<>> THEN <<>>
    ELSE LET front == SubSeq(list, 1, Len(list) - 1)
         IN  IF \E k \in DOMAIN front : front[k].id = list[Len(list)].id
             THEN FirstOccurrences(front)
             ELSE Append(FirstOccurrences(front), list[Len(list)])

\* A sub-query of the client of caller c's getUrgentEmails is answered.
SubQueryAnswered(c) ==
    /\ calls[c].op = "urgent" /\ calls[c].pc = "await"
    /\ calls'[c] # calls[c]

\* The answer was that of the last sub-query: the client returns.
ClientReturns(c) == calls'[c].i # calls[c].i \/ calls'[c].pc = "done"

\* What the client has after the answer: its messages and the messages of
\* the answer, the first of each id; a sub-query that threw adds nothing.
Collected(c) ==
    IF calls'[c].answer.ok
    THEN FirstOccurrences(calls[c].msgs \o calls'[c].answer.messages)
    ELSE calls[c].msgs

\* The client of caller c keeps the messages of every sub-query that
\* answers, whatever the others do, and returns at most `limit` of them, no
\* id twice, in the order of the sub-queries.
ClientStep(c) ==
    LET limit == calls[c].maxResults * 2
        returned == calls'[c].messages
    IN  /\ calls'[c].pc \in {"await", "done"}
        /\ ~ ClientReturns(c) => calls'[c].msgs = Collected(c)
        /\ ClientReturns(c) =>
              /\ Len(returned) <= limit
              /\ \A j, k \in DOMAIN returned : returned[j].id = returned[k].id => j = k
              /\ Len(returned) <= Len(Collected(c))
              /\ returned = SubSeq(Collected(c), 1, Len(returned))
              /\ Len(Collected(c)) <= limit => returned = Collected(c)

\* C31: getUrgentEmails(limit) of a provider client returns at most limit
\* messages, no two with one id, in the order of its sub-queries, the first
\* message of each id; a sub-query that fails does not fail the call, and the
\* messages of the other sub-queries are returned.
C31_FetchUrgent == [][\A c \in Callers : SubQueryAnswered(c) => ClientStep(c)]_vars

\* The same for every limit that is not negative.
C31_NotNegative ==
    [][\A c \in Callers :
          (SubQueryAnswered(c) /\ calls[c].maxResults >= 0) => ClientStep(c)]_vars

\* A client asked for two messages has returned two: one sub-query threw,
\* and of two messages with one id the first is among the two.
C31_Reached ==
    /\ calls[1].op = "urgent" /\ calls[1].pc = "done"
    /\ calls[1].maxResults = 1
    /\ calls[1].failed = {}
    /\ calls[1].messages = <<M2, M1b>>
    /\ ~ calls[1].answer.ok

\* The cache has a row for the classified email e, with its scores and flags.
CachedAs(e) ==
    \E x \in BagToSet(cache) :
        /\ x.account_id = e.accountId
        /\ x.message_id = e.id
        /\ x.urgency_score = e.urgencyScore
        /\ x.importance_score = e.importanceScore
        /\ x.is_urgent = (IF e.isUrgent THEN 1 ELSE 0)
        /\ x.is_important = (IF e.isImportant THEN 1 ELSE 0)

\* The account of a classified email is stored.
StoredAccount(id) == \E a \in accounts : a.id = id

\* Every email a finished search_emails call classified is cached as it
\* was classified.
SearchCached(c) ==
    (calls[c].op = "search" /\ calls[c].pc = "done") =>
        \A k \in DOMAIN calls[c].allResults :
            StoredAccount(calls[c].allResults[k].accountId)
                => CachedAs(calls[c].allResults[k])

\* Every message a finished get_urgent_emails call classified has a row, and
\* those it put into a bucket are cached as they were classified.
UrgentCached(c) ==
    (calls[c].op = "urgent" /\ calls[c].pc = "done") =>
        /\ \A f \in calls[c].fetched :
              StoredAccount(f[1]) =>
                  \E x \in BagToSet(cache) :
                      x.account_id = f[1] /\ x.message_id = f[2].id
        /\ \A k \in DOMAIN calls[c].urgentEmails :
              StoredAccount(calls[c].urgentEmails[k].accountId)
                  => CachedAs(calls[c].urgentEmails[k])
        /\ \A k \in DOMAIN calls[c].importantEmails :
              StoredAccount(calls[c].importantEmails[k].accountId)
                  => CachedAs(calls[c].importantEmails[k])

\* C32: when a search_emails or a get_urgent_emails call has succeeded, the
\* cache holds, for every message the call classified for a stored account,
\* a row with the account id and the message id whose scores and flags are
\* those of the classification the call made.
C32_Cached == \A c \in Callers : SearchCached(c) /\ UrgentCached(c)

\* The same for search_emails alone.
C32_SearchCached == \A c \in Callers : SearchCached(c)

\* A search_emails call that classified three messages of two accounts has
\* succeeded.
C32_Reached ==
    /\ calls[1].op = "search" /\ calls[1].pc = "done"
    /\ Len(calls[1].allResults) = 3
    /\ \E j, k \in DOMAIN calls[1].allResults :
          calls[1].allResults[j].accountId # calls[1].allResults[k].accountId
    /\ BagCardinality(cache) >= 3

\* The credentials a stored blob decodes to have the fields the provider
\* kind of the row requires, none of them empty.
ShapeOf(row) ==
    LET config == decryptProviderConfig(row.provider_config)
    IN  /\ row.provider = "gmail" =>
              /\ "refreshToken" \in DOMAIN config
              /\ config.refreshToken # ""
        /\ row.provider = "imap" =>
              /\ {"host", "port", "username", "password"} \subseteq DOMAIN config
              /\ config.host # "" /\ config.port # 0
              /\ config.username # "" /\ config.password # ""

\* C33: after any sequence of addAccount and updateAccount calls the stored
\* credential blob of every account has the shape of its provider kind: a
\* refresh token for a gmail account; host, port, username and password for
\* an imap account.
C33_Shape == \A row \in accounts : ShapeOf(row)

\* An imap account is stored with its four fields and a gmail account with
\* its refresh token, after updates of other fields of both.
C33_Reached ==
    /\ \E row \in accounts : row.provider = "imap" /\ row.default_mailbox = "Sent"
    /\ \E row \in accounts : row.provider = "gmail" /\ row.default_mailbox = "Sent"
    /\ \A row \in accounts : ShapeOf(row)

\* The step calls the provider client of an account for caller c: the call
\* begins and asks its first account, or goes on to its next one.
Invoked(c) ==
    /\ calls'[c].pc = "await"
    /\ calls[c].pc # "await" \/ calls'[c].i # calls[c].i

\* The account is stored and active.
IsActive(id) == \E r \in accounts : r.id = id /\ r.is_active = 1

\* C34: no search_emails or get_urgent_emails call, with an account id list
\* or without, calls the provider client of an account while the account is
\* disabled (so it returns none of its messages and caches none).
C34_Step ==
    \A c \in Callers :
        Invoked(c) => IsActive(calls'[c].accts[calls'[c].i].id)

C34_Disabled == [][C34_Step]_vars

\* A call without an account id list begins with the accounts that are
\* active then, all of them, an account that was enabled again included.
C34_Unlisted ==
    [][\A c \in Callers :
          (calls[c].pc = "idle" /\ calls'[c].pc = "await"
           /\ calls'[c].params.accounts = None) =>
              /\ \A k \in DOMAIN calls'[c].accts : IsActive(calls'[c].accts[k].id)
              /\ \A r \in accounts :
                    r.is_active = 1 =>
                        \E k \in DOMAIN calls'[c].accts : calls'[c].accts[k].id = r.id]_vars

\* A call without a list is under way with two accounts, after one of them
\* was disabled and enabled again.
C34_Reached ==
    /\ calls[1].pc = "await" /\ calls[1].params.accounts = None
    /\ Len(calls[1].accts) = 2
    /\ last.op = "enable" /\ last.err = ""

\* C35: every row of the result cache has the id of a stored account, in
\* every state, also when an account is removed while a search that resolved
\* it is awaiting its provider or the provider of another account.
C35_NoOrphans ==
    \A x \in BagToSet(cache) : \E a \in accounts : a.id = x.account_id

\* A search of two accounts is over.  Its second account was removed while
\* the search awaited its provider: the provider answered with messages, the
\* search returned them, and the cache has rows of the first account only.
C35_Witness ==
    /\ calls[1].op = "search" /\ calls[1].pc = "done"
    /\ Len(calls[1].accts) = 2
    /\ ~ \E a \in accounts : a.id = calls[1].accts[2].id
    /\ \E a \in accounts : a.id = calls[1].accts[1].id
    /\ calls[1].answer.ok /\ Len(calls[1].answer.messages) = 2
    /\ \E k \in DOMAIN calls[1].ret : calls[1].ret[k].accountId = calls[1].accts[2].id
    /\ cache # EmptyBag
    /\ \A x \in BagToSet(cache) : x.account_id = calls[1].accts[1].id

\* The step is a call of a tool that takes an account id, or of
\* updateAccount, with an id that no stored account has or with no id.
NoSuchAccount ==
    /\ last' # last
    /\ last'.op \in {"remove", "disable", "enable", "update", "updateTool"}
    /\ ~ \E a \in accounts : a.id = last'.accountId

\* C36: removeEmailAccount, disableEmailAccount, enableEmailAccount,
\* updateEmailAccount and updateAccount of the service, called with an id
\* that no stored account has, fail with the not-found error, and the tools
\* called without an id fail with the validation error; the account table
\* and the result cache are as they were.
C36_Step ==
    NoSuchAccount =>
        /\ last'.err = (IF last'.accountId = 0 THEN "validation" ELSE "notfound")
        /\ accounts' = accounts
        /\ cache' = cache

C36_NotFound == [][C36_Step]_vars

\* disableEmailAccount was called with the id of an account that had been
\* removed; another account is stored and active and has rows in the cache.
C36_Witness ==
    /\ last.op = "disable" /\ last.accountId = 1 /\ last.err = "notfound"
    /\ nextId = 3
    /\ \E a \in accounts : a.id = 2 /\ a.is_active = 1
    /\ \E x \in BagToSet(cache) : x.account_id = 2

\* The other calls with an id that is not stored have been made.
C36_Reached ==
    /\ accounts # {} /\ cache # EmptyBag
    /\ last.op \in {"remove", "enable", "update", "updateTool"}
    /\ last.accountId # 0 /\ last.err = "notfound"

(***************************************************************************)
(* Access token of the Gmail client                                        *)
(***************************************************************************)
\* The call has a request of a Gmail client in flight.
GmailRequestSent(c) ==
    calls[c].pc = "await" /\ calls[c].request # None

\* C37: no Gmail search request is sent with an empty access token: when the
\* client of a Gmail account, also one registered with a refresh token only,
\* sends its search request, the request carries a non-empty access token.
C37_TokenHeld ==
    \A c \in Callers :
        GmailRequestSent(c) => calls[c].request[1].authorization # ""

\* What the code does instead: the request of a Gmail client carries the
\* access token stored with the account, and the empty one when none is.
C37_StoredToken ==
    \A c \in Callers :
        GmailRequestSent(c) =>
            /\ calls[c].accts[calls[c].i].provider = "gmail"
            /\ calls[c].request[1].authorization =
                   GmailClient(calls[c].accts[calls[c].i]).accessToken

\* A search request of a Gmail account that was registered with a refresh
\* token is in flight.
C37_Reached ==
    \E c \in Callers :
        /\ GmailRequestSent(c)
        /\ calls[c].accts[calls[c].i].providerConfig.refreshToken # ""

(***************************************************************************)
(* Account ids                                                             *)
(***************************************************************************)
\* The ids of the rows of the account table.
StoredIds(tbl) == {r.id : r \in tbl}

\* The ids the results of the calls under way carry.
IdsInFlight(cs) ==
    UNION {{cs[c].allResults[k].accountId : k \in DOMAIN cs[c].allResults} :
           c \in Callers}

\* Every id the table has issued is below the sequence of the table: the ids
\* of the accounts, one account per id, and those of the rows in the cache.
IdsIssued ==
    /\ \A r \in accounts : r.id \in 1..(nextId - 1)
    /\ \A r, q \in accounts : r.id = q.id => r = q
    /\ \A x \in BagToSet(cache) : x.account_id \in 1..(nextId - 1)

\* An account was created in this step.
Created == StoredIds(accounts') \ StoredIds(accounts) # {}

\* C38: account ids are unique and stable.  The sequence of the table never
\* goes back and every id in use is below it; an account that is created gets
\* the id the sequence stands at, which no account before it had, removed
\* ones included, and no cached row and no result under way carries that id;
\* an update, a disable or an enable leaves every account under its id.
C38_Step ==
    /\ nextId' >= nextId
    /\ IdsIssued'
    /\ Created =>
          /\ StoredIds(accounts') \ StoredIds(accounts) = {nextId}
          /\ nextId' = nextId + 1
          /\ last'.accountId = nextId
          /\ ~ \E x \in BagToSet(cache') : x.account_id = nextId
          /\ nextId \notin IdsInFlight(calls')
    /\ (last' # last /\ last'.op \in {"update", "updateTool", "disable", "enable"}) =>
          /\ StoredIds(accounts') = StoredIds(accounts)
          /\ \A r \in accounts : \E q \in accounts' :
                /\ q.id = r.id /\ q.email = r.email
                /\ q.provider = r.provider /\ q.created_at = r.created_at

C38_UniqueStable == [][C38_Step]_vars

\* An account was created after the first one had been removed: it has the
\* id 2 and is the only account, and no row in the cache is its own.
C38_Witness ==
    /\ last.op = "add" /\ last.err = "" /\ last.accountId = 2
    /\ StoredIds(accounts) = {2} /\ nextId = 3
    /\ ~ \E x \in BagToSet(cache) : x.account_id = 2

\* An account was disabled, enabled or updated and is stored under its id.
C38_Reached ==
    /\ last.op \in {"update", "updateTool", "disable", "enable"}
    /\ last.err = "" /\ last.accountId \in StoredIds(accounts)

(***************************************************************************)
(* What searchEmails asks of the provider clients                          *)
(***************************************************************************)
\* The provider search of the account at position k of the resolved list of
\* the call of caller c has been invoked.
PositionAsked(cs, c, k) ==
    /\ cs[c].pc \in {"await", "done"}
    /\ k <= cs[c].i

\* C39: in a searchEmails fan-out each provider client that is invoked is
\* asked for the query of the caller and for exactly 2 * maxResults messages,
\* and the accounts of the resolved list are asked one position after the
\* other, so each once for each of its occurrences in the list: a step
\* invokes the client of the next position not asked yet and of no other, and
\* a position that has been asked is not asked again.
C39_Step ==
    \A c \in Callers :
        /\ (Invoked(c) /\ calls'[c].op = "search") =>
              /\ calls'[c].options =
                     Some([query |-> calls'[c].params.query,
                           maxResults |-> 2 * calls'[c].maxResults])
              /\ calls'[c].i \in DOMAIN calls'[c].accts
              /\ calls'[c].i = (IF calls[c].pc = "await" THEN calls[c].i + 1 ELSE 1)
              /\ calls[c].pc = "await" => calls'[c].accts = calls[c].accts
              /\ calls'[c].request =
                     (IF calls'[c].accts[calls'[c].i].provider = "gmail"
                      THEN Some([authorization |->
                                     calls'[c].request[1].authorization,
                                 q |-> calls'[c].params.query,
                                 maxResults |->
                                     IF calls'[c].maxResults = 0 THEN 10
                                     ELSE 2 * calls'[c].maxResults])
                      ELSE None)
        /\ (calls[c].op = "search" /\ calls'[c].op = "search"
              /\ calls[c].pc = "await" /\ calls'[c] # calls[c] /\ ~ Invoked(c)) =>
              /\ calls'[c].pc # "await"
              /\ calls'[c].pc = "done" =>
                    \A k \in DOMAIN calls'[c].accts : PositionAsked(calls', c, k)

C39_Headroom == [][C39_Step]_vars

\* A search with maxResults 2 over the list <<1, 1>> is asking account 1 for
\* the second time, for 4 messages.
C39_Witness ==
    /\ calls[1].op = "search" /\ calls[1].pc = "await" /\ calls[1].i = 2
    /\ calls[1].params.accounts = Some(<<1, 1>>)
    /\ calls[1].accts[1].id = 1 /\ calls[1].accts[2].id = 1
    /\ calls[1].maxResults = 2 /\ calls[1].options[1].maxResults = 4

====
